---- MODULE Spec2Model ----
(***************************************************************************)
(* Model of the app-store mockup generator: the batch loop of              *)
(* MockupGenerator.generate, the per-screenshot handler                    *)
(* _process_screenshot, the five assemblers of ImageMagickService and the  *)
(* seeded CurveGenerator.                                                  *)
(*                                                                         *)
(* A file is a record [w, h, layers, partial]; the file system fs maps the *)
(* existing paths to their contents.  A path is <<directory, file, stem>>. *)
(* Every raster-engine invocation (one subprocess.run) is one step, and    *)
(* may return zero or non-zero.  Percentages are kept as integers (per     *)
(* cent or per mille) and int(x * p) is the floor of the exact product.    *)
(***************************************************************************)
EXTENDS Integers, Sequences, FiniteSets, TLC

(* ------------------------------ bounds -------------------------------- *)
MaxShots == 2
MaxClock == 2
MaxRuns == 2
MaxCalls == 3
MaxSweep == 120
MaxSide == 5
MaxApplied == 2

(* ------------------------- program constants -------------------------- *)
CANVAS_WIDTH == 2000
CANVAS_HEIGHT == 4348
IPHONE_67_WIDTH == 1290
IPHONE_67_HEIGHT == 2796
IPHONE_69_WIDTH == IPHONE_67_WIDTH
IPHONE_69_HEIGHT == IPHONE_67_HEIGHT
IPAD_13_WIDTH == 2048
IPAD_13_HEIGHT == 2732
IPAD_SHADOW_BLUR == 50
PHONE_WIDTH == 1080
PHONE_HEIGHT == 1920
TABLET_WIDTH == 1600
TABLET_HEIGHT == 2560
SHADOW_BLUR == 50
FG_WIDTH == 1024
FG_HEIGHT == 500
FG_SHADOW_SPREAD == 20
STATUS_BAR_OFFSET_PIXELS == 180
\* per cent
TOP_SPACE_PERCENT == 18
MOCKUP_SPACE_PERCENT == 72
BOTTOM_SPACE_PERCENT == 10
HORIZONTAL_PADDING_PERCENT == 5
PHONE_HEIGHT_RATIO == 95
PHONE_RIGHT_MARGIN_RATIO == 8
FG_PHONE_ASPECT == 46
LOGO_MAX_HEIGHT_RATIO == 25
TEXT_AREA_WIDTH_RATIO == 50
TEXT_LEFT_MARGIN_RATIO == 6
LOGO_TOP_MARGIN_RATIO == 15
\* margin added around the subject when it is pre-composited with its shadow
SHADOW_CANVAS_MARGIN == 100
\* DecorativeCurvesConfig, ratios in per cent
CURVE_AMPLITUDE_MIN == 25
CURVE_AMPLITUDE_MAX == 45
CURVE_START_Y_MIN == 0
CURVE_START_Y_MAX == 15
CURVE_END_Y_MIN == 85
CURVE_END_Y_MAX == 100
MIN_CURVES == 1
MAX_CURVES == 2

MIN_CORNER_RADIUS == 2
MASK_VALUE_ALLOW == 255
MAGICK_CMD == "magick"
CONVERT_CMD == "convert"
Profiles == {"iphone", "gplay_phone", "ipad", "gplay_tablet"}
FrameFree == {"gplay_phone", "ipad", "gplay_tablet"}

(* ------------------------------ helpers ------------------------------- *)
Min(a, b) == IF a <= b THEN a ELSE b
Max(a, b) == IF a >= b THEN a ELSE b
\* round-half-up of n / d for n >= 0, d > 0
RoundDiv(n, d) == (2 * n + d) \div (2 * d)
\* Python's int(n / d) for d > 0: truncation towards zero
int(n, d) == IF n >= 0 THEN n \div d ELSE -((-n) \div d)

Img(w, h, layers) == [w |-> w, h |-> h, layers |-> layers, partial |-> FALSE]
Partial == [w |-> 0, h |-> 0, layers |-> << >>, partial |-> TRUE]

Write(f, p, im) == [q \in (DOMAIN f) \cup {p} |-> IF q = p THEN im ELSE f[q]]
Remove(f, S) == [q \in (DOMAIN f) \ S |-> f[q]]

\* directories created by tempfile.TemporaryDirectory() and the /tmp files
TempDirs == {"/tmp", "asm", "cwc", "top", "logo"}
TempPaths(f) == {p \in DOMAIN f : p[1] \in TempDirs}

(* --------------------------- LayoutConfig ----------------------------- *)
get_top_offset(canvas_height) == (canvas_height * TOP_SPACE_PERCENT) \div 100
\* the mockup share of an earlier layout, 65 per cent
get_mockup_max_height_65(canvas_height) == (canvas_height * 65) \div 100
get_mockup_max_height(canvas_height) == (canvas_height * MOCKUP_SPACE_PERCENT) \div 100
\* a subject box as wide as the canvas, no horizontal padding
get_mockup_max_width_full(canvas_width) == canvas_width
get_mockup_max_width(canvas_width) ==
    (canvas_width * (100 - 2 * HORIZONTAL_PADDING_PERCENT)) \div 100

(* ------------------------ device profile table ------------------------ *)
\* working canvas of each assembler
Canvas(a) ==
    CASE a = "iphone" -> <<CANVAS_WIDTH, CANVAS_HEIGHT>>
      [] a = "ipad" -> <<IPAD_13_WIDTH, IPAD_13_HEIGHT>>
      [] a = "gplay_phone" -> <<PHONE_WIDTH, PHONE_HEIGHT>>
      [] a = "gplay_tablet" -> <<TABLET_WIDTH, TABLET_HEIGHT>>
      [] OTHER -> <<FG_WIDTH, FG_HEIGHT>>

\* target aspect ratio as the pair (width, height) it is computed from
TargetAspect(a) ==
    CASE a = "ipad" -> <<IPAD_13_WIDTH, IPAD_13_HEIGHT>>
      [] a = "gplay_phone" -> <<PHONE_WIDTH, PHONE_HEIGHT>>
      [] OTHER -> <<TABLET_WIDTH, TABLET_HEIGHT>>

ShadowSigma(a) ==
    CASE a = "ipad" -> IPAD_SHADOW_BLUR
      [] a = "feature_graphic" -> FG_SHADOW_SPREAD
      [] OTHER -> SHADOW_BLUR

\* TopImageConfig / BottomLogoConfig, per mille
TopImageConfig_get_config(device_type) ==
    CASE device_type = "ipad" ->
           [max_width |-> 850, max_height |-> 920, top_padding |-> 50,
            vertical_align |-> "center"]
      [] device_type = "gplay_phone" ->
           [max_width |-> 980, max_height |-> 920, top_padding |-> 50,
            vertical_align |-> "center"]
      [] device_type = "gplay_tablet" ->
           [max_width |-> 880, max_height |-> 920, top_padding |-> 50,
            vertical_align |-> "center"]
      [] OTHER ->
           [max_width |-> 1000, max_height |-> 950, top_padding |-> 50,
            vertical_align |-> "center"]

BottomLogoConfig_get_config(device_type) ==
    CASE device_type = "ipad" ->
           [max_width |-> 160, max_height |-> 550, right_padding |-> 25, bottom_padding |-> 80]
      [] device_type = "gplay_phone" ->
           [max_width |-> 160, max_height |-> 500, right_padding |-> 30, bottom_padding |-> 80]
      [] device_type = "gplay_tablet" ->
           [max_width |-> 140, max_height |-> 500, right_padding |-> 25, bottom_padding |-> 80]
      [] OTHER ->
           [max_width |-> 300, max_height |-> 800, right_padding |-> 30, bottom_padding |-> 100]

(* ------------------------- raster primitives -------------------------- *)
\* magick in -resize WxH out : fit inside the box, aspect preserved
ResizeFit(im, W, H) ==
    IF W * im.h <= H * im.w
    THEN Img(W, Max(1, RoundDiv(im.h * W, im.w)), im.layers)
    ELSE Img(Max(1, RoundDiv(im.w * H, im.h)), H, im.layers)

\* magick in -resize WxH! out : exact size, aspect ignored
ResizeExact(im, W, H) == Img(W, H, im.layers)

\* magick bg fg -composite out : the result keeps the background's canvas
Over(bg, fg) == Img(bg.w, bg.h, bg.layers \o fg.layers)

\* magick in -shadow OxS+x+y out : the shadow image grows by 2*sigma per side
Shadow(im, sigma) == Img(im.w + 4 * sigma, im.h + 4 * sigma, <<"shadow">>)

\* magick in -rotate -15 out : bounding box of the rotated rectangle
\* (cos 15 = 0.9659, sin 15 = 0.2588, in units of 1/10000)
Rotate15(im) ==
    Img((im.w * 9659 + im.h * 2588 + 9999) \div 10000,
        (im.w * 2588 + im.h * 9659 + 9999) \div 10000, im.layers)

(* ---------------------- crop and scale arithmetic --------------------- *)
\* lines 1385-1396 (iPad), 1604-1613, 1820-1829: <<new_width, new_height, crop_x, crop_y>>
CropRect(src, a) ==
    LET aw == TargetAspect(a)[1]
        ah == TargetAspect(a)[2]
        cand == (src[1] * ah) \div aw
    IN  IF cand > src[2] - STATUS_BAR_OFFSET_PIXELS
        THEN LET nh == src[2] - STATUS_BAR_OFFSET_PIXELS
                 nw == int(nh * aw, ah)
             IN  <<nw, nh, (src[1] - nw) \div 2, STATUS_BAR_OFFSET_PIXELS>>
        ELSE <<src[1], cand, 0, STATUS_BAR_OFFSET_PIXELS>>

\* lines 1398-1405: <<screenshot_width, screenshot_height>>
ScreenshotSize(nw, nh, a) ==
    LET mh == get_mockup_max_height(Canvas(a)[2])
        mw == get_mockup_max_width(Canvas(a)[1])
    IN  IF mw * nh > nw * mh
        THEN <<(mh * nw) \div nh, mh>>
        ELSE <<mw, (mw * nh) \div nw>>

\* resize_mockup_to_fit: shrink to the box, or copy when it already fits
resize_mockup_to_fit(im, max_width, max_height) ==
    IF max_width < im.w \/ max_height < im.h
    THEN IF max_width * im.h <= max_height * im.w
         THEN ResizeFit(im, max_width, (im.h * max_width) \div im.w)
         ELSE ResizeFit(im, (im.w * max_height) \div im.h, max_height)
    ELSE im

\* a top image scaled by its width constraint alone
TopImageResized_width_only(orig, a) ==
    LET mw == (Canvas(a)[1] * TopImageConfig_get_config(a).max_width) \div 1000
    IN  ResizeExact(Img(orig[1], orig[2], <<"top_image">>), mw, (orig[2] * mw) \div orig[1])
\* _add_top_image lines 1101-1121: the resized top image
TopImageResized(orig, a) ==
    LET c == TopImageConfig_get_config(a)
        top_space == get_top_offset(Canvas(a)[2])
        mw == (Canvas(a)[1] * c.max_width) \div 1000
        mh == (top_space * c.max_height) \div 1000
        nw == IF mw * orig[2] <= mh * orig[1] THEN mw ELSE (orig[1] * mh) \div orig[2]
        nh == IF mw * orig[2] <= mh * orig[1] THEN (orig[2] * mw) \div orig[1] ELSE mh
    IN  ResizeFit(Img(orig[1], orig[2], <<"top_image">>), nw, nh)

\* a logo scaled by its width constraint alone
LogoResized_width_only(orig, a) ==
    LET mw == (Canvas(a)[1] * BottomLogoConfig_get_config(a).max_width) \div 1000
    IN  ResizeExact(Img(orig[1], orig[2], <<"logo">>), mw, (orig[2] * mw) \div orig[1])
\* _add_bottom_logo lines 1193-1216: the resized logo
LogoResized(orig, a) ==
    LET c == BottomLogoConfig_get_config(a)
        bottom_space == (Canvas(a)[2] * BOTTOM_SPACE_PERCENT) \div 100
        mw == (Canvas(a)[1] * c.max_width) \div 1000
        mh == (bottom_space * c.max_height) \div 1000
        nw == IF mw * orig[2] <= mh * orig[1] THEN mw ELSE (orig[1] * mh) \div orig[2]
        nh == IF mw * orig[2] <= mh * orig[1] THEN (orig[2] * mw) \div orig[1] ELSE mh
    IN  ResizeFit(Img(orig[1], orig[2], <<"logo">>), nw, nh)

(* ----------------------------- placement ------------------------------ *)
\* "-gravity north -geometry +0+dy": top-left corner of fg on a canvas of width bg_w
GravityNorth(bg_w, fg_w, dy) == <<int(bg_w - fg_w, 2), dy>>
\* "-gravity center": top-left corner of fg on a canvas bg_w x bg_h
GravityCenter(bg_w, bg_h, fg_w, fg_h) == <<int(bg_w - fg_w, 2), int(bg_h - fg_h, 2)>>
\* "-gravity southeast -geometry +dx+dy"
GravitySouthEast(bg_w, bg_h, fg_w, fg_h, dx, dy) == <<bg_w - dx - fg_w, bg_h - dy - fg_h>>

\* bounding box <<x, y, w, h>> of the subject on the canvas it is composited
\* onto: steps 8 and 9 of the frame-free assemblers, steps 1 and 2 of
\* create_iphone_mockup_with_curves
SubjectBox(a, src) ==
    LET cw == Canvas(a)[1]
        ch == Canvas(a)[2]
    IN  IF a = "iphone"
        THEN LET m == resize_mockup_to_fit(Img(src[1], src[2], <<"subject">>),
                                           get_mockup_max_width(cw),
                                           get_mockup_max_height(ch))
                 at == GravityNorth(cw, m.w, get_top_offset(ch))
             IN  <<at[1], at[2], m.w, m.h>>
        ELSE LET rect == CropRect(src, a)
                 size == ScreenshotSize(rect[1], rect[2], a)
                 m == ResizeFit(Img(rect[1], rect[2], <<"subject">>), size[1], size[2])
                 fw == size[1] + SHADOW_CANVAS_MARGIN
                 fh == size[2] + SHADOW_CANVAS_MARGIN
                 inner == GravityCenter(fw, fh, m.w, m.h)
                 at == GravityNorth(cw, fw, get_top_offset(ch))
             IN  <<at[1] + inner[1], at[2] + inner[2], m.w, m.h>>

\* _add_top_image lines 1101-1121: <<new_width, new_height>>
TopImageDims(orig, a) ==
    LET c == TopImageConfig_get_config(a)
        mw == (Canvas(a)[1] * c.max_width) \div 1000
        mh == (get_top_offset(Canvas(a)[2]) * c.max_height) \div 1000
    IN  IF mw * orig[2] <= mh * orig[1]
        THEN <<mw, (orig[2] * mw) \div orig[1]>>
        ELSE <<(orig[1] * mh) \div orig[2], mh>>

\* _add_top_image lines 1137-1146: vertical_offset
TopImageOffset(orig, a) ==
    LET c == TopImageConfig_get_config(a)
        top_space_height == get_top_offset(Canvas(a)[2])
        top_padding == (top_space_height * c.top_padding) \div 1000
        remaining_space == (top_space_height - top_padding) - TopImageDims(orig, a)[2]
    IN  CASE c.vertical_align = "top" -> top_padding
          [] c.vertical_align = "bottom" -> top_padding + Max(0, remaining_space)
          [] OTHER -> top_padding + Max(0, remaining_space \div 2)

\* bounding box of the top image on the background
TopImageBox(orig, a) ==
    LET out == TopImageResized(orig, a)
        at == GravityNorth(Canvas(a)[1], out.w, TopImageOffset(orig, a))
    IN  <<at[1], at[2], out.w, out.h>>

\* _add_bottom_logo lines 1196-1242: bounding box of the logo on the canvas
LogoBox(orig, a) ==
    LET c == BottomLogoConfig_get_config(a)
        cw == Canvas(a)[1]
        ch == Canvas(a)[2]
        bottom_space_height == (ch * BOTTOM_SPACE_PERCENT) \div 100
        right_padding == (cw * c.right_padding) \div 1000
        bottom_padding == (bottom_space_height * c.bottom_padding) \div 1000
        out == LogoResized(orig, a)
        at == GravitySouthEast(cw, ch, out.w, out.h, right_padding, bottom_padding)
    IN  <<at[1], at[2], out.w, out.h>>

\* create_feature_graphic lines 2186-2208: bounding box of the logo, placed
\* northwest at +left_margin+logo_top_margin
FeatureGraphicLogoBox(orig) ==
    LET logo_max_height == (FG_HEIGHT * LOGO_MAX_HEIGHT_RATIO) \div 100
        logo_top_margin == (FG_HEIGHT * LOGO_TOP_MARGIN_RATIO) \div 100
        left_margin == (FG_WIDTH * TEXT_LEFT_MARGIN_RATIO) \div 100
        \* scale = min(1.0, logo_max_height / logo_orig_height)
        logo_new_width == IF orig[2] <= logo_max_height THEN orig[1]
                          ELSE (orig[1] * logo_max_height) \div orig[2]
        logo_new_height == IF orig[2] <= logo_max_height THEN orig[2] ELSE logo_max_height
        out == ResizeFit(Img(orig[1], orig[2], <<"logo">>), logo_new_width, logo_new_height)
    IN  <<left_margin, logo_top_margin, out.w, out.h>>

(* ------------------------------- state -------------------------------- *)
VARIABLES
    cfg,        \* what generate() finds: screenshots, overlays, feature flags
    pc,         \* position of generate(): setup, loop, shot, feature, done
    idx,        \* 1-based index of the screenshot being processed
    asset,      \* profile being assembled, or "none"
    stage,      \* index of the next stage of the running assembler
    fs,         \* file system: existing path -> contents
    results,    \* the results dict of the running _process_screenshot
    counts,     \* the counts dict of generate()
    exitCode,   \* return value of generate(), -1 while running
    clock,      \* time.time() in milliseconds
    run,        \* number of the current run of the generator
    invoked,    \* history: stems for which _process_screenshot was invoked
    attempted,  \* history: <<stem, profile>> whose assembler was called
    stageLog,   \* history: stages executed by the running assembler
    seedLog,    \* history: curve seed used per (run, profile, stem)
    curveCalls, \* history: calls of the curve generator with their results
    calc,       \* the latest geometry computation: function, arguments, result
    overlays,   \* overlay files (top images, transparent logo) that exist on disk
    other,      \* a second generator process working on the same /tmp: position,
                \* screenshot name, what it found when it read its flat mockup
    cap         \* ScreenshotCapture._capture_screenshots: position, arguments,
                \* simulator state, local simulator_id, commands issued, result

vars == <<cfg, pc, idx, asset, stage, fs, results, counts, exitCode, clock, run,
          invoked, attempted, stageLog, seedLog, curveCalls, calc,
                   overlays, other, cap>>

(* ------------------------------ colours ------------------------------- *)
\* a colour string is the sequence of its characters
HexDigits ==
    <<"0", "1", "2", "3", "4", "5", "6", "7", "8", "9", "a", "b", "c", "d", "e", "f">>
UpperHexDigits == <<"A", "B", "C", "D", "E", "F">>
IsHexDigit(ch) ==
    \/ \E i \in 1..Len(HexDigits) : HexDigits[i] = ch
    \/ \E i \in 1..Len(UpperHexDigits) : UpperHexDigits[i] = ch
HexVal(ch) ==
    IF \E i \in 1..Len(HexDigits) : HexDigits[i] = ch
    THEN (CHOOSE i \in 1..Len(HexDigits) : HexDigits[i] = ch) - 1
    ELSE (CHOOSE i \in 1..Len(UpperHexDigits) : UpperHexDigits[i] = ch) + 9

\* str.lstrip('#')
RECURSIVE lstrip(_)
lstrip(str) == IF str # << >> /\ Head(str) = "#" THEN lstrip(Tail(str)) ELSE str
\* the slice str[i:j] of Python, i and j counted from 0
Slice(str, i, j) == SubSeq(str, i + 1, Min(j, Len(str)))
\* int(text, 16) over digit strings: ValueError on the empty string and on a
\* character that is no hexadecimal digit
int16(text) ==
    IF text = << >> \/ \E k \in 1..Len(text) : ~IsHexDigit(text[k])
    THEN [ok |-> FALSE, value |-> 0]
    ELSE [ok |-> TRUE,
          value |-> IF Len(text) = 1 THEN HexVal(text[1])
                    ELSE 16 * HexVal(text[1]) + HexVal(text[2])]
\* color_utils.hex_to_rgb: ok is FALSE where the code raises ValueError
hex_to_rgb(hex_color) ==
    LET h == lstrip(hex_color)
        part == [k \in 1..3 |-> int16(Slice(h, 2 * (k - 1), 2 * k))]
    IN  [ok |-> \A k \in 1..3 : part[k].ok,
         rgb |-> [k \in 1..3 |-> part[k].value]]
\* lighten_color(gradient_start, ...) raises exactly when hex_to_rgb does
lighten_color_raises(hex_color) == ~hex_to_rgb(hex_color).ok

\* GradientStyle.PREMIUM_PURPLE, the style of choice 0 without PRIMARY_COLOR
PREMIUM_PURPLE ==
    [gradient_start |-> <<"#", "6", "6", "7", "e", "e", "a">>,
     gradient_end |-> <<"#", "7", "6", "4", "b", "a", "2">>]
\* gradient colours a caller may hand to an assembler
GradientStarts ==
    {PREMIUM_PURPLE.gradient_start,
     <<"#", "G", "G", "5", "7", "3", "3">>,
     <<"#", "f", "f", "f">>,
     <<"#", "f", "f", "5", "7", "3", "3", "z", "z">>}
GradientEnds ==
    {PREMIUM_PURPLE.gradient_end,
     <<"#", "7", "6">>,
     <<"r", "e", "d", "d", "i", "s", "h">>}

(* --------------------------- environment ------------------------------ *)
\* sorted(glob("0*.png")): stems in sorted order, without repetition
AllNames == <<"01_home", "02_points", "03_store">>
RECURSIVE SortedSeq(_)
SortedSeq(S) ==
    IF S = {} THEN << >>
    ELSE LET m == CHOOSE i \in S : \A j \in S : i <= j
         IN  <<AllNames[m]>> \o SortedSeq(S \ {m})
Batches ==
    {SortedSeq(S) : S \in {T \in SUBSET (1..Len(AllNames)) : Cardinality(T) <= MaxShots}}

\* pixel sizes of the raw screenshots (iPhone 15 Pro Max, iPad Pro 12.9)
SrcSizes == {<<1290, 2796>>, <<2048, 2732>>}
\* pixel sizes of the optional overlays
TopImageSize == <<1200, 300>>
LogoSize == <<512, 256>>

Configs ==
    [screenshots : Batches,
     src : SrcSizes,
     top_images : {{}, {"01_home"}},
     bottom_logo_path : BOOLEAN,
     generate_ipad : BOOLEAN,
     generate_gplay : BOOLEAN,
     generate_feature_graphic : BOOLEAN,
     gradient_start : {PREMIUM_PURPLE.gradient_start},
     gradient_end : {PREMIUM_PURPLE.gradient_end},
     installed : {{MAGICK_CMD}}]

\* no capture in progress
NoCapture ==
    [pc |-> "off", platform |-> "ios", skip_tests |-> FALSE, found |-> FALSE,
     booted |-> FALSE, simulator_id |-> "none", boot_issued |-> FALSE,
     shutdown_called |-> FALSE, pending |-> "none", result |-> "none"]

\* no second generator process
NoOther == [pc |-> "off", name |-> "", read |-> "none"]

\* the overlay files of the templates and client assets directories
top_image_path(name) == <<"top_images", ".png", name>>
transparent_logo == <<"client_assets", "transparent-logo.png", "">>
\* the overlay files generate() finds: _find_top_image, _find_transparent_logo
FoundOverlays(c) ==
    {top_image_path(n) : n \in c.top_images}
    \cup (IF c.bottom_logo_path THEN {transparent_logo} ELSE {})

ZeroCounts ==
    [k \in Profiles \cup {"feature_graphic"} |-> 0]
NoResults == [k \in Profiles |-> FALSE]

(* ------------------------------- paths -------------------------------- *)
T(dir, file) == <<dir, file, "">>
temp_flat(name) == <<"/tmp", "mockup_flat", name>>
temp_large_mockup(name) == <<"/tmp", "mockup_large", name>>
OutDir(a) ==
    CASE a = "iphone" -> "iphone_6_7"
      [] a = "ipad" -> "ipad_12_9"
      [] a = "gplay_phone" -> "gplay_phone"
      [] a = "gplay_tablet" -> "gplay_tablet"
      [] OTHER -> "feature_graphic"
output_path(a, name) ==
    IF a = "feature_graphic" THEN <<"feature_graphic", "featureGraphic.png", "">>
    ELSE <<OutDir(a), "_mockup.png", name>>
\* directory holding the background layers of assembler a
BgDir(a) == IF a = "iphone" THEN "cwc" ELSE "asm"

\* the local variable final_bg / current_bg: the newest background written
final_bg(f, a) ==
    IF T(BgDir(a), "bg_with_logo.png") \in DOMAIN f THEN T(BgDir(a), "bg_with_logo.png")
    ELSE IF T(BgDir(a), "bg_with_top_image.png") \in DOMAIN f
         THEN T(BgDir(a), "bg_with_top_image.png")
         ELSE T(BgDir(a), "bg_with_curves.png")

(* ----------------------------- pipelines ------------------------------ *)
TopStages(top) == IF top THEN <<"top_resize", "top_composite">> ELSE << >>

\* _process_screenshot 693-704, create_iphone_mockup_with_curves,
\* composite_with_decorative_curves
IPhonePipeline(top, logo) ==
    <<"flat_mockup", "fit", "gradient", "curves", "curves_composite">>
    \o TopStages(top)
    \o <<"composite">>
    \o (IF logo THEN <<"logo_resize", "logo_composite">> ELSE << >>)
    \o <<"resize_final">>

\* an assembler that renders the curves before it creates the gradient
FrameFreePipeline_curves_first(top, logo) ==
    <<"crop", "resize", "round", "shadow", "curves", "gradient", "curves_composite">>
    \o TopStages(top)
    \o (IF logo THEN <<"bg_logo_resize", "bg_logo_composite">> ELSE << >>)
    \o <<"shadow_composite", "composite">>
    \o (IF logo THEN <<"logo_resize", "logo_composite">> ELSE <<"copy">>)
\* create_ipad_screenshot_with_curves and the two Google Play assemblers
FrameFreePipeline(top, logo) ==
    <<"crop", "resize", "round", "shadow", "gradient", "curves", "curves_composite">>
    \o TopStages(top)
    \o (IF logo THEN <<"bg_logo_resize", "bg_logo_composite">> ELSE << >>)
    \o <<"shadow_composite", "composite">>
    \o (IF logo THEN <<"logo_resize", "logo_composite">> ELSE <<"copy">>)

\* create_feature_graphic
FeatureGraphicPipeline(logo) ==
    <<"gradient", "curves", "curves_composite", "crop", "round", "rotate", "shadow",
      "shadow_composite", "composite">>
    \o (IF logo THEN <<"fg_logo">> ELSE << >>)
    \o <<"text", "copy">>

Pipeline(a, name) ==
    LET \* "if top_image_path and top_image_path.exists()"
        top == name \in cfg.top_images /\ top_image_path(name) \in overlays
        \* "if bottom_logo_path and bottom_logo_path.exists()"
        logo == cfg.bottom_logo_path /\ transparent_logo \in overlays
    IN  CASE a = "iphone" -> IPhonePipeline(top, logo)
          [] a \in FrameFree -> FrameFreePipeline(top, logo)
          [] OTHER -> FeatureGraphicPipeline(logo)

(* --------------------------- curve seeds ------------------------------ *)
\* a seed string: a text, followed by "_<stamp>" when stamp >= 0
NoSeed == [text |-> "", stamp |-> -1]
NameSeed(name) == [text |-> name, stamp |-> -1]
\* a seed that appends the time of the call to the name
curve_seed_stamped(name) == [text |-> name, stamp |-> clock]
\* _process_screenshot line 678: curve_seed = name
curve_seed(name) == NameSeed(name)
\* _generate_feature_graphic lines 423-430: no seed argument is passed
FeatureGraphicSeedArg(name) == NoSeed
\* create_feature_graphic line 2067
FeatureGraphicCurveSeed(seed, now) ==
    IF seed # NoSeed THEN seed ELSE [text |-> "feature_graphic", stamp |-> now]
SeedUsed(a, name) ==
    IF a = "feature_graphic"
    THEN FeatureGraphicCurveSeed(FeatureGraphicSeedArg(name), clock)
    ELSE curve_seed(name)

(* -------------------------- curve generator --------------------------- *)
\* the seed strings that occur, in a fixed order
SeedTexts == <<"01_home", "02_points", "03_store", "feature_graphic">>
\* int(hashlib.md5(seed.encode()).hexdigest(), 16): one fixed digest per string
md5_int(seed) ==
    LET t == CHOOSE i \in 1..Len(SeedTexts) : SeedTexts[i] = seed.text
    IN  (t * 7919 + (seed.stamp + 1) * 39191) % 65537

\* one step of the pseudo-random generator behind random.Random
Lcg(s) == (s * 75 + 74) % 65537
\* state of the generator after k draws
RECURSIVE Draw(_, _)
Draw(s, k) == IF k = 0 THEN s ELSE Draw(Lcg(s), k - 1)
\* values of rng.randint, rng.uniform (in per cent) and rng.choice read off
\* the state s the draw has left
randint(s, a, b) == a + (s % (b - a + 1))
uniform(s, a, b) == a + (s % (b - a + 1))
choice(s, seq) == seq[1 + (s % Len(seq))]

\* a generator seeded with the time of the call
get_seeded_random_time(seed) == md5_int([text |-> "feature_graphic", stamp |-> clock])
\* _get_seeded_random: a fresh random.Random(hash_int) for every call
get_seeded_random(seed) == md5_int(seed)

\* _generate_wavy_curve_points: the control points and the generator state left
generate_wavy_curve_points(width, height, rng, start_side, num_waves) ==
    LET base_amplitude ==
            (width * uniform(Draw(rng, 1), CURVE_AMPLITUDE_MIN, CURVE_AMPLITUDE_MAX)) \div 100
        start_y == (height * uniform(Draw(rng, 2), CURVE_START_Y_MIN, CURVE_START_Y_MAX)) \div 100
        end_y == (height * uniform(Draw(rng, 3), CURVE_END_Y_MIN, CURVE_END_Y_MAX)) \div 100
        edge_x == IF start_side = "left" THEN 0 ELSE width
        direction == IF start_side = "left" THEN 1 ELSE -1
        y_variance == height \div (num_waves * 10)
        point(i) ==
            LET r1 == Draw(rng, 4 + 2 * i)
                r2 == Draw(rng, 5 + 2 * i)
                y0 == start_y + ((end_y - start_y) * (i + 1)) \div (num_waves * 2)
                y == Max(0, Min(height, y0 + randint(r1, -y_variance, y_variance)))
                x == IF i % 2 = 0
                     THEN edge_x + direction * ((base_amplitude * uniform(r2, 85, 100)) \div 100)
                     ELSE edge_x + direction * ((base_amplitude * uniform(r2, 40, 60)) \div 100)
            IN  <<x, y>>
    IN  [points |-> <<<<edge_x, start_y>>>>
                    \o [i \in 1..(num_waves * 2) |-> point(i - 1)]
                    \o <<<<edge_x, end_y>>>>,
         rng |-> Draw(rng, 3 + 4 * num_waves)]

\* _generate_curve_points
generate_curve_points(width, height, rng, start_side) ==
    LET r == Draw(rng, 1)
    IN  generate_wavy_curve_points(width, height, r, start_side, randint(r, 2, 3))

\* the "M x,y" and "Q cx,cy ex,ey" commands shared by both path builders; a
\* path string is the sequence of its commands
CurveCommands(points) ==
    LET n == Len(points)
        Q(i) == [cmd |-> "Q",
                 args |-> points[i] \o
                    (IF i < n - 1
                     THEN <<(points[i][1] + points[i + 1][1]) \div 2,
                            (points[i][2] + points[i + 1][2]) \div 2>>
                     ELSE points[i + 1])]
    IN  <<[cmd |-> "M", args |-> points[1]]>> \o [i \in 1..(n - 2) |-> Q(i + 1)]
L(x, y) == [cmd |-> "L", args |-> <<x, y>>]
Z == [cmd |-> "Z", args |-> << >>]

\* _points_to_svg_path
points_to_svg_path(points, width, height, fill_to_edge) ==
    IF Len(points) < 3 THEN << >>
    ELSE CurveCommands(points) \o
         (CASE fill_to_edge = "left" -> <<L(0, height), L(0, points[1][2]), Z>>
            [] fill_to_edge = "right" -> <<L(width, height), L(width, points[1][2]), Z>>
            [] OTHER -> <<L(points[Len(points)][1], height), L(points[1][1], height), Z>>)

\* "if path: paths.append(path)"
AppendIfAny(path) == IF path = << >> THEN << >> ELSE <<path>>

side_choices == <<"left", "left", "right", "right", "both">>

\* the loop of generate_curve_paths, lines 307-325
RECURSIVE CurveLoop(_, _, _, _)
CurveLoop(remaining, rng, width, height) ==
    IF remaining = 0 THEN << >>
    ELSE LET r == Draw(rng, 1)
             curve_type == choice(r, side_choices)
         IN  IF curve_type = "both"
             THEN LET left == generate_curve_points(width, height, r, "left")
                      right == generate_curve_points(width, height, left.rng, "right")
                  IN  AppendIfAny(points_to_svg_path(left.points, width, height, "left"))
                      \o AppendIfAny(points_to_svg_path(right.points, width, height, "right"))
                      \o CurveLoop(remaining - 1, right.rng, width, height)
             ELSE LET one == generate_curve_points(width, height, r, curve_type)
                  IN  AppendIfAny(points_to_svg_path(one.points, width, height, curve_type))
                      \o CurveLoop(remaining - 1, one.rng, width, height)

generate_curve_paths(width, height, seed) ==
    LET r == Draw(get_seeded_random(seed), 1)
    IN  CurveLoop(randint(r, MIN_CURVES, MAX_CURVES), r, width, height)

\* _generate_horizontal_wave_points
generate_horizontal_wave_points(width, height, rng, start_edge, num_waves) ==
    LET base_amplitude == (height * uniform(Draw(rng, 1), 30, 50)) \div 100
        start_x == (width * uniform(Draw(rng, 2), 0, 10)) \div 100
        end_x == (width * uniform(Draw(rng, 3), 90, 100)) \div 100
        edge_y == IF start_edge = "top" THEN 0 ELSE height
        direction == IF start_edge = "top" THEN 1 ELSE -1
        x_variance == width \div (num_waves * 10)
        point(i) ==
            LET r1 == Draw(rng, 4 + 2 * i)
                r2 == Draw(rng, 5 + 2 * i)
                x0 == start_x + ((end_x - start_x) * (i + 1)) \div (num_waves * 2)
                x == Max(0, Min(width, x0 + randint(r1, -x_variance, x_variance)))
                y == IF i % 2 = 0
                     THEN edge_y + direction * ((base_amplitude * uniform(r2, 70, 100)) \div 100)
                     ELSE edge_y + direction * ((base_amplitude * uniform(r2, 20, 40)) \div 100)
            IN  <<x, y>>
    IN  [points |-> <<<<start_x, edge_y>>>>
                    \o [i \in 1..(num_waves * 2) |-> point(i - 1)]
                    \o <<<<end_x, edge_y>>>>,
         rng |-> Draw(rng, 3 + 4 * num_waves)]

\* _horizontal_wave_to_svg_path
horizontal_wave_to_svg_path(points, width, height, fill_to_edge) ==
    IF Len(points) < 3 THEN << >>
    ELSE CurveCommands(points) \o
         (IF fill_to_edge = "top"
          THEN <<L(width, 0), L(0, 0), L(points[1][1], points[1][2]), Z>>
          ELSE <<L(width, height), L(0, height), L(points[1][1], points[1][2]), Z>>)

\* the loop of generate_horizontal_curve_paths, lines 532-547
RECURSIVE HorizontalLoop(_, _, _, _, _)
HorizontalLoop(i, num_curves, rng, width, height) ==
    IF i = num_curves THEN << >>
    ELSE LET r0 == IF num_curves = 2 THEN rng ELSE Draw(rng, 1)
             start_edge == IF num_curves = 2
                           THEN (IF i = 0 THEN "top" ELSE "bottom")
                           ELSE choice(r0, <<"top", "bottom">>)
             r == Draw(r0, 1)
             wave == generate_horizontal_wave_points(width, height, r, start_edge,
                                                     randint(r, 2, 3))
         IN  AppendIfAny(horizontal_wave_to_svg_path(wave.points, width, height, start_edge))
             \o HorizontalLoop(i + 1, num_curves, wave.rng, width, height)

generate_horizontal_curve_paths(width, height, seed) ==
    LET r == Draw(get_seeded_random(seed), 1)
    IN  HorizontalLoop(0, randint(r, 1, 2), r, width, height)

\* the paths create_curve_overlay / create_horizontal_curve_overlay draws for
\* asset a; without paths it logs a warning and returns False
CurvePaths(a, name) ==
    IF a = "feature_graphic"
    THEN generate_horizontal_curve_paths(Canvas(a)[1], Canvas(a)[2], SeedUsed(a, name))
    ELSE generate_curve_paths(Canvas(a)[1], Canvas(a)[2], SeedUsed(a, name))

(* ------------------------------ stages -------------------------------- *)
\* files a stage reads; the engine returns non-zero when one is missing
Inputs(a, op, name, f) ==
    CASE op = "fit" -> {temp_flat(name)}
      [] op = "resize" -> {T("asm", "cropped.png")}
      [] op = "round" -> IF a = "feature_graphic" THEN {T("asm", "phone_cropped.png")}
                         ELSE {T("asm", "resized.png")}
      [] op = "rotate" -> {T("asm", "phone_rounded.png")}
      [] op = "shadow" -> IF a = "feature_graphic" THEN {T("asm", "phone_rotated.png")}
                          ELSE {T("asm", "rounded.png")}
      [] op = "curves_composite" ->
           {T(BgDir(a), "gradient.png"), T(BgDir(a), "curves.png")}
      [] op = "top_composite" ->
           {T(BgDir(a), "bg_with_curves.png"), T("top", "top_image_resized.png")}
      [] op = "bg_logo_composite" -> {final_bg(f, a), T("logo", "logo_resized.png")}
      [] op = "shadow_composite" ->
           IF a = "feature_graphic"
           THEN {T("asm", "phone_shadow.png"), T("asm", "phone_rotated.png")}
           ELSE {T("asm", "shadow.png"), T("asm", "rounded.png")}
      [] op = "composite" ->
           CASE a = "iphone" -> {final_bg(f, a), T("asm", "resized_mockup.png")}
             [] a = "feature_graphic" ->
                  {T("asm", "bg_with_curves.png"), T("asm", "phone_with_shadow.png")}
             [] OTHER -> {final_bg(f, a), T("asm", "with_shadow.png")}
      [] op = "logo_composite" ->
           IF a = "iphone" THEN {T("asm", "large_output.png"), T("logo", "logo_resized.png")}
           ELSE {T("asm", "composited.png"), T("logo", "logo_resized.png")}
      [] op = "resize_final" ->
           IF T("asm", "with_logo.png") \in DOMAIN f THEN {T("asm", "with_logo.png")}
           ELSE {T("asm", "large_output.png")}
      [] op = "fg_logo" -> {T("asm", "with_phone.png")}
      [] op = "text" ->
           IF T("asm", "with_logo.png") \in DOMAIN f THEN {T("asm", "with_logo.png")}
           ELSE {T("asm", "with_phone.png")}
      [] op = "copy" ->
           IF a = "feature_graphic" THEN {T("asm", "with_text.png")}
           ELSE {T("asm", "composited.png")}
      [] OTHER -> {}

\* the file a stage writes
Target(a, op, name) ==
    CASE op = "flat_mockup" -> temp_flat(name)
      [] op = "fit" -> T("asm", "resized_mockup.png")
      [] op = "crop" -> IF a = "feature_graphic" THEN T("asm", "phone_cropped.png")
                        ELSE T("asm", "cropped.png")
      [] op = "resize" -> T("asm", "resized.png")
      [] op = "round" -> IF a = "feature_graphic" THEN T("asm", "phone_rounded.png")
                         ELSE T("asm", "rounded.png")
      [] op = "rotate" -> T("asm", "phone_rotated.png")
      [] op = "shadow" -> IF a = "feature_graphic" THEN T("asm", "phone_shadow.png")
                          ELSE T("asm", "shadow.png")
      [] op = "gradient" -> T(BgDir(a), "gradient.png")
      [] op = "curves" -> T(BgDir(a), "curves.png")
      [] op = "curves_composite" -> T(BgDir(a), "bg_with_curves.png")
      [] op = "top_resize" -> T("top", "top_image_resized.png")
      [] op = "top_composite" -> T(BgDir(a), "bg_with_top_image.png")
      [] op \in {"bg_logo_resize", "logo_resize"} -> T("logo", "logo_resized.png")
      [] op = "bg_logo_composite" -> T("asm", "bg_with_logo.png")
      [] op = "shadow_composite" ->
           IF a = "feature_graphic" THEN T("asm", "phone_with_shadow.png")
           ELSE T("asm", "with_shadow.png")
      [] op = "composite" ->
           CASE a = "iphone" -> T("asm", "large_output.png")
             [] a = "feature_graphic" -> T("asm", "with_phone.png")
             [] OTHER -> T("asm", "composited.png")
      [] op = "logo_composite" ->
           IF a = "iphone" THEN T("asm", "with_logo.png") ELSE output_path(a, name)
      [] op = "fg_logo" -> T("asm", "with_logo.png")
      [] op = "text" -> T("asm", "with_text.png")
      [] OTHER -> output_path(a, name)   \* resize_final, copy

\* a resize that omits the "!" flag and so keeps the aspect ratio
resize_to_apple_iphone_fit(im) == ResizeFit(im, IPHONE_69_WIDTH, IPHONE_69_HEIGHT)
\* resize_to_apple_iphone: resize_image(input, output, 1290, 2796) with "WxH!"
resize_to_apple_iphone(im) == ResizeExact(im, IPHONE_69_WIDTH, IPHONE_69_HEIGHT)

\* the image a successful stage writes
Product(a, op, name, f) ==
    LET cw == Canvas(a)[1]
        ch == Canvas(a)[2]
        in1(file) == f[T("asm", file)]
        rect == CropRect(cfg.src, a)
        size == ScreenshotSize(rect[1], rect[2], a)
        phone_height == (ch * PHONE_HEIGHT_RATIO) \div 100
        phone_width == (phone_height * FG_PHONE_ASPECT) \div 100
    IN  CASE op = "flat_mockup" -> Img(cfg.src[1], cfg.src[2], <<"subject">>)
          [] op = "fit" ->
               resize_mockup_to_fit(f[temp_flat(name)], get_mockup_max_width(cw),
                                    get_mockup_max_height(ch))
          [] op = "crop" ->
               IF a = "feature_graphic"
               THEN ResizeFit(Img(cfg.src[1], cfg.src[2] - STATUS_BAR_OFFSET_PIXELS,
                                  <<"subject">>), phone_width, phone_height)
               ELSE Img(rect[1], rect[2], <<"subject">>)
          [] op = "resize" -> ResizeFit(in1("cropped.png"), size[1], size[2])
          [] op = "round" ->
               IF a = "feature_graphic" THEN in1("phone_cropped.png") ELSE in1("resized.png")
          [] op = "rotate" -> Rotate15(in1("phone_rounded.png"))
          [] op = "shadow" ->
               IF a = "feature_graphic"
               THEN Shadow(in1("phone_rotated.png"), ShadowSigma(a))
               ELSE Shadow(in1("rounded.png"), ShadowSigma(a))
          [] op = "gradient" -> Img(cw, ch, <<"gradient">>)
          [] op = "curves" -> Img(cw, ch, <<"curves">>)
          [] op = "curves_composite" ->
               Over(f[T(BgDir(a), "gradient.png")], f[T(BgDir(a), "curves.png")])
          [] op = "top_resize" ->
               TopImageResized(TopImageSize, IF a = "iphone" THEN "iphone" ELSE a)
          [] op = "top_composite" ->
               Over(f[T(BgDir(a), "bg_with_curves.png")], f[T("top", "top_image_resized.png")])
          [] op \in {"bg_logo_resize", "logo_resize"} -> LogoResized(LogoSize, a)
          [] op = "bg_logo_composite" ->
               Over(f[final_bg(f, a)], f[T("logo", "logo_resized.png")])
          [] op = "shadow_composite" ->
               IF a = "feature_graphic"
               THEN Img(in1("phone_rotated.png").w + SHADOW_CANVAS_MARGIN,
                        in1("phone_rotated.png").h + SHADOW_CANVAS_MARGIN,
                        in1("phone_shadow.png").layers \o in1("phone_rotated.png").layers)
               ELSE Img(size[1] + SHADOW_CANVAS_MARGIN, size[2] + SHADOW_CANVAS_MARGIN,
                        in1("shadow.png").layers \o in1("rounded.png").layers)
          [] op = "composite" ->
               CASE a = "iphone" -> Over(f[final_bg(f, a)], in1("resized_mockup.png"))
                 [] a = "feature_graphic" ->
                      Over(in1("bg_with_curves.png"), in1("phone_with_shadow.png"))
                 [] OTHER -> Over(f[final_bg(f, a)], in1("with_shadow.png"))
          [] op = "logo_composite" ->
               IF a = "iphone"
               THEN Over(in1("large_output.png"), f[T("logo", "logo_resized.png")])
               ELSE Over(in1("composited.png"), f[T("logo", "logo_resized.png")])
          [] op = "resize_final" ->
               resize_to_apple_iphone(
                   IF T("asm", "with_logo.png") \in DOMAIN f THEN in1("with_logo.png")
                   ELSE in1("large_output.png"))
          [] op = "fg_logo" ->
               Over(in1("with_phone.png"),
                    ResizeFit(Img(LogoSize[1], LogoSize[2], <<"logo">>),
                              (LogoSize[1] * Min(LogoSize[2], (ch * LOGO_MAX_HEIGHT_RATIO) \div 100))
                                  \div LogoSize[2],
                              Min(LogoSize[2], (ch * LOGO_MAX_HEIGHT_RATIO) \div 100)))
          [] op = "text" ->
               LET bg == IF T("asm", "with_logo.png") \in DOMAIN f THEN in1("with_logo.png")
                         ELSE in1("with_phone.png")
               IN  Img(bg.w, bg.h, bg.layers \o <<"text">>)
          [] OTHER ->   \* copy
               IF a = "feature_graphic" THEN in1("with_text.png") ELSE in1("composited.png")

\* temporary directories whose "with" block ends right after the stage
Closes(a, op) ==
    CASE op = "top_composite" -> {"top"}
      [] op \in {"bg_logo_composite"} -> {"logo"}
      [] op = "logo_composite" -> IF a = "iphone" THEN {"logo"} ELSE {"logo", "asm"}
      [] op = "composite" -> IF a = "iphone" THEN {"cwc"} ELSE {}
      [] op \in {"resize_final", "copy"} -> {"asm"}
      [] OTHER -> {}

InDirs(f, D) == {p \in DOMAIN f : p[1] \in D}

\* file system after a successful stage
Exec(a, op, name, f) ==
    LET g == Write(f, Target(a, op, name), Product(a, op, name, f))
    IN  Remove(g, InDirs(g, Closes(a, op)))

(* ----------------------- control flow helpers -------------------------- *)
CurName == IF pc = "feature" THEN cfg.screenshots[1] ELSE cfg.screenshots[idx]

\* the order of the assemblers in _process_screenshot and their feature flags
ProfileOrder == <<"iphone", "gplay_phone", "ipad", "gplay_tablet">>
Enabled(p) ==
    CASE p = "iphone" -> TRUE
      [] p = "ipad" -> cfg.generate_ipad
      [] OTHER -> cfg.generate_gplay
PosOf(a) == CHOOSE i \in 1..Len(ProfileOrder) : ProfileOrder[i] = a
NextProfile(a) ==
    LET later == {i \in (PosOf(a) + 1)..Len(ProfileOrder) : Enabled(ProfileOrder[i])}
    IN  IF later = {} THEN "none"
        ELSE ProfileOrder[CHOOSE i \in later : \A j \in later : i <= j]

\* exception raised by a failing stage
ExceptionOf(op) ==
    CASE op = "flat_mockup" -> "MockupGeneratorError"
      [] op = "lighten_color" -> "ValueError"
      [] OTHER -> "ImageMagickError"

\* a handler that lets MockupGeneratorError through
except_ImageMagickError(exc) == exc = "ImageMagickError"
\* _process_screenshot line 764: except Exception
except_Exception(exc) == TRUE

\* a finally block that removes nothing
finally_nothing(f, name) == f
\* _process_screenshot lines 769-773: the finally block
finally_cleanup(f, name) == Remove(f, {temp_flat(name), temp_large_mockup(name)})

\* the tally of generate() lines 910-912
Tally(c, res) ==
    [k \in DOMAIN c |-> IF k \in Profiles /\ res[k] THEN c[k] + 1 ELSE c[k]]

\* _process_screenshot returns res; generate() tallies and moves on
Return(res, f) ==
    /\ fs' = finally_cleanup(f, CurName)
    /\ results' = res
    /\ counts' = Tally(counts, res)
    /\ idx' = idx + 1
    /\ pc' = "loop"
    /\ asset' = "none"
    /\ stage' = 0
    /\ exitCode' = exitCode

\* an exit code that looks at every asset counted
Finish_any_asset(c, f) ==
    /\ fs' = f
    /\ counts' = c
    /\ exitCode' = (IF \A k \in DOMAIN c : c[k] = 0 THEN 1 ELSE 0)
    /\ pc' = "done"
    /\ asset' = "none"
    /\ stage' = 0
    /\ UNCHANGED <<results, idx>>
\* generate() lines 928-941: summary and exit code
Finish(c, f) ==
    /\ fs' = f
    /\ counts' = c
    /\ exitCode' = (IF c["iphone"] = 0 THEN 1 ELSE 0)
    /\ pc' = "done"
    /\ asset' = "none"
    /\ stage' = 0
    /\ UNCHANGED <<results, idx>>

\* an exception escapes _process_screenshot: generate() lines 943-953
Escape(f) ==
    /\ fs' = finally_cleanup(f, CurName)
    /\ exitCode' = 1
    /\ pc' = "done"
    /\ asset' = "none"
    /\ stage' = 0
    /\ UNCHANGED <<results, counts, idx>>

Continue(f) ==
    /\ fs' = f
    /\ stage' = stage + 1
    /\ UNCHANGED <<asset, results, counts, idx, pc, exitCode>>

\* the assembler of profile a returned normally
Succeed(a, f) ==
    IF a = "feature_graphic"
    THEN Finish([counts EXCEPT !["feature_graphic"] = 1], f)
    ELSE LET res == [results EXCEPT ![a] = TRUE]
         IN  IF NextProfile(a) = "none"
             THEN Return(res, f)
             ELSE /\ fs' = f
                  /\ results' = res
                  /\ asset' = NextProfile(a)
                  /\ stage' = 1
                  /\ UNCHANGED <<counts, idx, pc, exitCode>>

\* a stage of profile a raised: every open "with" block removes its directory,
\* then the except clause of the caller runs
Fail(a, op, f) ==
    LET g == Remove(f, InDirs(f, TempDirs \ {"/tmp"}))
    IN  IF a = "feature_graphic"
        THEN Finish(counts, g)             \* _generate_feature_graphic 436-439
        ELSE IF except_Exception(ExceptionOf(op))
             THEN Return(results, g)
             ELSE Escape(g)

(* ------------------------------ actions ------------------------------- *)
Init ==
    /\ cfg \in Configs
    /\ pc = "setup"
    /\ idx = 0
    /\ asset = "none"
    /\ stage = 0
    /\ fs = << >>
    /\ results = NoResults
    /\ counts = ZeroCounts
    /\ exitCode = -1
    /\ clock = 0
    /\ run = 1
    /\ invoked = << >>
    /\ attempted = {}
    /\ stageLog = << >>
    /\ seedLog = {}
    /\ curveCalls = << >>
    /\ calc = [fn |-> "none"]
    /\ overlays = FoundOverlays(cfg)
    /\ other = NoOther
    /\ cap = NoCapture

\* generate() lines 834-898: _find_screenshots raises when no file matches
GenerateSetup ==
    /\ pc = "setup"
    /\ IF cfg.screenshots = << >>
       THEN /\ pc' = "done"
            /\ exitCode' = 1
            /\ idx' = idx
       ELSE /\ pc' = "loop"
            /\ exitCode' = exitCode
            /\ idx' = 1
    /\ counts' = ZeroCounts
    /\ UNCHANGED <<cfg, asset, stage, fs, results, clock, run, invoked, attempted,
                   stageLog, seedLog, curveCalls, calc,
                   overlays, other, cap>>

\* generate() line 899-900 and _process_screenshot lines 655-689
ProcessScreenshotBegin ==
    /\ pc = "loop"
    /\ idx <= Len(cfg.screenshots)
    /\ pc' = "shot"
    /\ invoked' = Append(invoked, cfg.screenshots[idx])
    /\ results' = NoResults
    /\ asset' = "iphone"
    /\ stage' = 1
    /\ UNCHANGED <<cfg, idx, fs, counts, exitCode, clock, run, attempted, stageLog, seedLog,
                   curveCalls, calc,
                   overlays, other, cap>>

\* _detect_imagemagick_cmd over the commands installed on the machine
detect_imagemagick_cmd(installed) ==
    IF MAGICK_CMD \in installed THEN MAGICK_CMD
    ELSE IF CONVERT_CMD \in installed THEN CONVERT_CMD
         ELSE "ImageMagickError"
\* the executable a stage runs: _run_magick prepends self.cmd; the two curve
\* overlay functions build their own command line
EngineCommand(op, cmd) == IF op = "curves" THEN "magick" ELSE cmd
\* stages that invoke the raster engine (the flat mockup is apply_mockup.py)
EngineStage(op) == op # "flat_mockup"

\* the stage in front of which assembler a evaluates lighten_color(gradient_start):
\* composite_with_decorative_curves line 1013 for iPhone, after the mockup was
\* fitted; in front of the first stage for the other assemblers
LightenAt(a) == IF a \in FrameFree THEN "crop" ELSE "gradient"

\* one stage of the running assembler: one engine invocation and what follows it
StageStep(a) ==
    LET name == CurName
        pipe == Pipeline(a, name)
        op == pipe[stage]
        ready == Inputs(a, op, name, fs) \subseteq DOMAIN fs
    IN  /\ attempted' = attempted \cup {<<name, a>>}
        /\ seedLog' = IF op = "curves"
                      THEN seedLog \cup {[run |-> run, profile |-> a, name |-> name,
                                          seed |-> SeedUsed(a, name)]}
                      ELSE seedLog
        /\ IF op = LightenAt(a) /\ lighten_color_raises(cfg.gradient_start)
           THEN /\ stageLog' = (IF stage = 1 THEN << >> ELSE stageLog)
                /\ Fail(a, "lighten_color", fs)
           ELSE
           \E outcome \in {"ok", "fail", "fail_partial"} :
             IF /\ outcome = "ok"
                /\ ready
                /\ (op = "curves" => CurvePaths(a, name) # << >>)
                /\ (EngineStage(op) =>
                      EngineCommand(op, detect_imagemagick_cmd(cfg.installed)) \in cfg.installed)
             THEN /\ stageLog' = (IF stage = 1 THEN <<op>> ELSE Append(stageLog, op))
                  /\ IF stage = Len(pipe)
                     THEN Succeed(a, Exec(a, op, name, fs))
                     ELSE Continue(Exec(a, op, name, fs))
             ELSE IF op = "curves"
                  THEN \* create_curve_overlay logs the problem and returns False; its
                       \* caller ignores the return value
                       /\ stageLog' = Append(stageLog, op)
                       /\ Continue(fs)
                  ELSE /\ stageLog' = (IF stage = 1 THEN << >> ELSE stageLog)
                       /\ Fail(a, op,
                               IF outcome = "fail_partial" /\ ready
                               THEN Write(fs, Target(a, op, name), Partial)
                               ELSE fs)
        /\ UNCHANGED <<cfg, clock, run, invoked, curveCalls, calc,
                   overlays, other, cap>>

\* create_iphone_mockup_with_curves, preceded by _generate_flat_mockup
IPhoneStage == pc = "shot" /\ asset = "iphone" /\ StageStep("iphone")

\* create_ipad_screenshot_with_curves and the two Google Play assemblers
FrameFreeStage == pc = "shot" /\ asset \in FrameFree /\ StageStep(asset)

\* generate() lines 914-926 at the end of the loop
LoopEnd ==
    /\ pc = "loop"
    /\ idx > Len(cfg.screenshots)
    /\ IF cfg.generate_feature_graphic /\ cfg.generate_gplay
       THEN /\ pc' = "feature"
            /\ asset' = "feature_graphic"
            /\ stage' = 1
            /\ UNCHANGED <<fs, counts, exitCode, results, idx>>
       ELSE Finish(counts, fs)
    /\ UNCHANGED <<cfg, clock, run, invoked, attempted, stageLog, seedLog, curveCalls, calc,
                   overlays, other, cap>>

\* create_feature_graphic, called by _generate_feature_graphic
FeatureGraphicStage == pc = "feature" /\ asset = "feature_graphic" /\ StageStep("feature_graphic")

Next ==
    \/ GenerateSetup
    \/ ProcessScreenshotBegin
    \/ IPhoneStage
    \/ FrameFreeStage
    \/ LoopEnd
    \/ FeatureGraphicStage

Spec == Init /\ [][Next]_vars

(* ---------------------- repeated runs and the clock ------------------- *)
\* time.time() advances
Tick ==
    /\ clock < MaxClock
    /\ clock' = clock + 1
    /\ UNCHANGED <<cfg, pc, idx, asset, stage, fs, results, counts, exitCode, run,
                   invoked, attempted, stageLog, seedLog, curveCalls, calc,
                   overlays, other, cap>>

\* the generator is started again over the same screenshots directory; the
\* files written by the earlier run are still there
Rerun ==
    /\ pc = "done"
    /\ run < MaxRuns
    /\ run' = run + 1
    /\ pc' = "setup"
    /\ idx' = 0
    /\ asset' = "none"
    /\ stage' = 0
    /\ results' = NoResults
    /\ counts' = ZeroCounts
    /\ exitCode' = -1
    /\ invoked' = << >>
    /\ attempted' = {}
    /\ stageLog' = << >>
    /\ UNCHANGED <<cfg, fs, clock, seedLog, curveCalls, calc,
                   overlays, other, cap>>

\* one screenshot, Google Play assets and Feature Graphic enabled
RerunConfigs ==
    {c \in Configs : /\ c.screenshots = <<AllNames[1]>>
                     /\ c.src = <<1290, 2796>>
                     /\ c.top_images = {}
                     /\ ~c.bottom_logo_path
                     /\ ~c.generate_ipad
                     /\ c.generate_gplay
                     /\ c.generate_feature_graphic}

InitRerun == Init /\ cfg \in RerunConfigs

(* ---------------------- overlays that go missing ---------------------- *)
\* an overlay file is deleted between two screenshots of the batch
RemoveOverlay ==
    /\ pc = "loop"
    /\ \E p \in overlays : overlays' = overlays \ {p}
    /\ UNCHANGED <<cfg, pc, idx, asset, stage, fs, results, counts, exitCode, clock, run,
                   invoked, attempted, stageLog, seedLog, curveCalls, calc, other, cap>>

\* one screenshot with a logo, Google Play assets and Feature Graphic enabled
OverlayConfigs ==
    {c \in Configs : /\ c.screenshots = <<AllNames[1]>>
                     /\ c.src = <<1290, 2796>>
                     /\ c.bottom_logo_path
                     /\ ~c.generate_ipad
                     /\ c.generate_gplay
                     /\ c.generate_feature_graphic}
InitOverlays == Init /\ cfg \in OverlayConfigs
NextOverlays == Next \/ RemoveOverlay
SpecOverlays == InitOverlays /\ [][NextOverlays]_vars

(* -------------------- two generator processes ------------------------- *)
\* the second process runs _process_screenshot for a screenshot of its own
\* project; its assemblers work in their own TemporaryDirectory, its flat
\* mockup is /tmp/mockup_flat_{name}.png
OtherFlat == Img(1290, 2796, <<"other_subject">>)

\* _process_screenshot line 693 in the second process
OtherFlatMockup ==
    /\ other.pc = "start"
    /\ fs' = Write(fs, temp_flat(other.name), OtherFlat)
    /\ other' = [other EXCEPT !.pc = "flat"]
    /\ UNCHANGED <<cfg, pc, idx, asset, stage, results, counts, exitCode, clock, run,
                   invoked, attempted, stageLog, seedLog, curveCalls, calc, overlays, cap>>

\* resize_mockup_to_fit in the second process reads its flat mockup
OtherFit ==
    /\ other.pc = "flat"
    /\ other' = [other EXCEPT
                    !.pc = "fit",
                    !.read = IF temp_flat(other.name) \notin DOMAIN fs THEN "missing"
                             ELSE IF fs[temp_flat(other.name)] = OtherFlat THEN "own"
                                  ELSE "foreign"]
    /\ UNCHANGED <<cfg, pc, idx, asset, stage, fs, results, counts, exitCode, clock, run,
                   invoked, attempted, stageLog, seedLog, curveCalls, calc, overlays, cap>>

\* the finally block of the second process, lines 769-773
OtherCleanup ==
    /\ other.pc = "fit"
    /\ fs' = finally_cleanup(fs, other.name)
    /\ other' = [other EXCEPT !.pc = "done"]
    /\ UNCHANGED <<cfg, pc, idx, asset, stage, results, counts, exitCode, clock, run,
                   invoked, attempted, stageLog, seedLog, curveCalls, calc, overlays, cap>>

InitConcurrent ==
    /\ cfg \in RerunConfigs
    /\ pc = "setup"
    /\ idx = 0
    /\ asset = "none"
    /\ stage = 0
    /\ fs = << >>
    /\ results = NoResults
    /\ counts = ZeroCounts
    /\ exitCode = -1
    /\ clock = 0
    /\ run = 1
    /\ invoked = << >>
    /\ attempted = {}
    /\ stageLog = << >>
    /\ seedLog = {}
    /\ curveCalls = << >>
    /\ calc = [fn |-> "none"]
    /\ overlays = FoundOverlays(cfg)
    /\ other \in [pc : {"start"}, name : {AllNames[1], AllNames[2]}, read : {"none"}]
    /\ cap = NoCapture
NextConcurrent ==
    \/ GenerateSetup
    \/ ProcessScreenshotBegin
    \/ IPhoneStage
    \/ FrameFreeStage
    \/ LoopEnd
    \/ FeatureGraphicStage
    \/ OtherFlatMockup
    \/ OtherFit
    \/ OtherCleanup
SpecConcurrent == InitConcurrent /\ [][NextConcurrent]_vars

(* ------------------------- screenshot capture ------------------------- *)
CaptureFrame ==
    UNCHANGED <<cfg, pc, idx, asset, stage, fs, results, counts, exitCode, clock, run,
                invoked, attempted, stageLog, seedLog, curveCalls, calc, overlays, other>>

\* _capture_screenshots lines 217-226: skip_tests guard and platform dispatch
CaptureScreenshotsBegin ==
    /\ cap.pc = "start"
    /\ cap' = IF cap.skip_tests
              THEN [cap EXCEPT !.pc = "done", !.result = "returned"]
              ELSE IF cap.platform = "ios" THEN [cap EXCEPT !.pc = "get_or_boot"]
              ELSE [cap EXCEPT !.pc = "android"]
    /\ CaptureFrame

\* simulator.get_or_boot_simulator(self.device); simulator_id is assigned only
\* when the call returns
GetOrBootSimulator ==
    /\ cap.pc = "get_or_boot"
    /\ IF ~cap.found
       THEN \* "Simulator ... not found"
            cap' = [cap EXCEPT !.pc = "finally", !.pending = "SimulatorError"]
       ELSE IF cap.booted
            THEN \* boot_simulator: already booted, nothing to do
                 cap' = [cap EXCEPT !.pc = "test", !.simulator_id = "udid"]
            ELSE \E outcome \in {"booted", "boot_failed", "not_booted", "list_failed"} :
                   cap' = CASE outcome = "booted" ->
                                 [cap EXCEPT !.pc = "test", !.boot_issued = TRUE,
                                             !.booted = TRUE, !.simulator_id = "udid"]
                            [] outcome = "boot_failed" ->
                                 \* simctl boot exits non-zero
                                 [cap EXCEPT !.pc = "finally", !.boot_issued = TRUE,
                                             !.pending = "SimulatorError"]
                            [] outcome = "not_booted" ->
                                 \* "failed to boot properly"
                                 [cap EXCEPT !.pc = "finally", !.boot_issued = TRUE,
                                             !.pending = "SimulatorError"]
                            [] OTHER ->
                                 \* simctl list fails while verifying a booted simulator
                                 [cap EXCEPT !.pc = "finally", !.boot_issued = TRUE,
                                             !.booted = TRUE, !.pending = "SimulatorError"]
    /\ CaptureFrame

\* _capture_screenshots_ios and the guard "if not success"
RunDriveTest ==
    /\ cap.pc = "test"
    /\ \E success \in BOOLEAN :
         cap' = [cap EXCEPT !.pc = "finally",
                            !.pending = IF success THEN "none" ELSE "ScreenshotCaptureError"]
    /\ CaptureFrame

\* the finally block, lines 245-254, and how the method is left
CaptureFinally ==
    /\ cap.pc = "finally"
    /\ \E shutdown_ok \in BOOLEAN :
         cap' = [cap EXCEPT
                   !.pc = "done",
                   !.shutdown_called = (cap.simulator_id # "none"),
                   !.booted = IF cap.simulator_id # "none" /\ shutdown_ok THEN FALSE
                              ELSE cap.booted,
                   !.result = IF cap.pending = "none" THEN "returned"
                              ELSE "ScreenshotCaptureError"]
    /\ CaptureFrame

\* the Android workflow, lines 256-282
CaptureAndroid ==
    /\ cap.pc = "android"
    /\ \E android_devices \in BOOLEAN, success \in BOOLEAN :
         cap' = [cap EXCEPT !.pc = "done",
                            !.result = IF android_devices /\ success THEN "returned"
                                       ELSE "ScreenshotCaptureError"]
    /\ CaptureFrame

\* keyword arguments against the parameters of a constructor
ScreenshotCapture_init_parameters ==
    {"device", "platform", "screenshots_dir", "white_label_dir", "skip_tests"}
MockupGenerator_init_parameters ==
    {"screenshots_dir", "output_dir", "templates_dir", "generate_ipad", "generate_gplay",
     "generate_feature_graphic"}
\* ScreenshotPipeline.__init__ lines 92-103
ScreenshotPipeline_init ==
    IF /\ {"device", "platform", "skip_tests", "screenshots_dir"}
              \subseteq ScreenshotCapture_init_parameters
       /\ {"project_config", "generate_ipad", "generate_gplay"}
              \subseteq MockupGenerator_init_parameters
    THEN "constructed" ELSE "TypeError"
\* ScreenshotPipeline.run for the exit codes of its two steps
ScreenshotPipeline_run(capture_result, mockup_result) ==
    [raised |-> "none",
     capture_called |-> TRUE,
     generate_called |-> (capture_result = 0),
     returned |-> IF capture_result # 0 \/ mockup_result # 0 THEN 1 ELSE 0]

\* a pipeline invocation: ScreenshotPipeline(...) with the default project
\* configuration, then run()
PipelineInvocation ==
    /\ \E capture_result \in {0, 1, 130}, mockup_result \in {0, 1} :
         calc' = [fn |-> "pipeline", capture_result |-> capture_result,
                  mockup_result |-> mockup_result,
                  out |-> IF ScreenshotPipeline_init = "constructed"
                          THEN ScreenshotPipeline_run(capture_result, mockup_result)
                          ELSE [raised |-> ScreenshotPipeline_init,
                                capture_called |-> FALSE, generate_called |-> FALSE,
                                returned |-> -1]]
    /\ UNCHANGED <<cfg, pc, idx, asset, stage, fs, results, counts, exitCode, clock, run,
                   invoked, attempted, stageLog, seedLog, curveCalls, overlays, other, cap>>

InitCapture ==
    /\ cfg \in RerunConfigs
    /\ pc = "setup"
    /\ idx = 0
    /\ asset = "none"
    /\ stage = 0
    /\ fs = << >>
    /\ results = NoResults
    /\ counts = ZeroCounts
    /\ exitCode = -1
    /\ clock = 0
    /\ run = 1
    /\ invoked = << >>
    /\ attempted = {}
    /\ stageLog = << >>
    /\ seedLog = {}
    /\ curveCalls = << >>
    /\ calc = [fn |-> "none"]
    /\ overlays = FoundOverlays(cfg)
    /\ other = NoOther
    /\ cap \in [pc : {"start"}, platform : {"ios", "android"}, skip_tests : BOOLEAN,
                 found : BOOLEAN, booted : BOOLEAN, simulator_id : {"none"},
                 boot_issued : {FALSE}, shutdown_called : {FALSE}, pending : {"none"},
                 result : {"none"}]
NextCapture ==
    \/ CaptureScreenshotsBegin
    \/ GetOrBootSimulator
    \/ RunDriveTest
    \/ CaptureFinally
    \/ CaptureAndroid
    \/ PipelineInvocation
SpecCapture == InitCapture /\ [][NextCapture]_vars

(* ------------------- machines with either ImageMagick ---------------- *)
\* the batch of RerunConfigs on a machine with ImageMagick 7, 6 or both
EngineConfigs ==
    {[c EXCEPT !.installed = i] :
        c \in RerunConfigs, i \in {{MAGICK_CMD}, {CONVERT_CMD}, {MAGICK_CMD, CONVERT_CMD}}}
InitEngines ==
    /\ cfg \in EngineConfigs
    /\ pc = "setup"
    /\ idx = 0
    /\ asset = "none"
    /\ stage = 0
    /\ fs = << >>
    /\ results = NoResults
    /\ counts = ZeroCounts
    /\ exitCode = -1
    /\ clock = 0
    /\ run = 1
    /\ invoked = << >>
    /\ attempted = {}
    /\ stageLog = << >>
    /\ seedLog = {}
    /\ curveCalls = << >>
    /\ calc = [fn |-> "none"]
    /\ overlays = FoundOverlays(cfg)
    /\ other = NoOther
    /\ cap = NoCapture
SpecEngines == InitEngines /\ [][Next]_vars

(* ------------------- requests with arbitrary colours ------------------ *)
\* the batch of RerunConfigs, with the gradient colours of the requests drawn
\* from GradientStarts and GradientEnds
ColourConfigs ==
    {[c EXCEPT !.gradient_start = gs, !.gradient_end = ge] :
        c \in RerunConfigs, gs \in GradientStarts, ge \in GradientEnds}
InitColours ==
    /\ cfg \in ColourConfigs
    /\ pc = "setup"
    /\ idx = 0
    /\ asset = "none"
    /\ stage = 0
    /\ fs = << >>
    /\ results = NoResults
    /\ counts = ZeroCounts
    /\ exitCode = -1
    /\ clock = 0
    /\ run = 1
    /\ invoked = << >>
    /\ attempted = {}
    /\ stageLog = << >>
    /\ seedLog = {}
    /\ curveCalls = << >>
    /\ calc = [fn |-> "none"]
    /\ overlays = FoundOverlays(cfg)
    /\ other = NoOther
    /\ cap = NoCapture
SpecColours == InitColours /\ [][Next]_vars

NextRerun ==
    \/ GenerateSetup
    \/ ProcessScreenshotBegin
    \/ IPhoneStage
    \/ FrameFreeStage
    \/ LoopEnd
    \/ FeatureGraphicStage
    \/ Tick
    \/ Rerun

SpecRerun == InitRerun /\ [][NextRerun]_vars

(* ------------------- the curve generator on its own -------------------- *)
\* seeds and canvas sizes the assemblers pass to the curve generator
CurveSeeds ==
    {curve_seed(AllNames[1]), curve_seed(AllNames[2]), FeatureGraphicCurveSeed(NoSeed, 0),
     FeatureGraphicCurveSeed(NoSeed, 2)}
CurveSizes == {<<CANVAS_WIDTH, CANVAS_HEIGHT>>, <<FG_WIDTH, FG_HEIGHT>>}

CurveCall(fn, seed, size, paths) ==
    [fn |-> fn, seed |-> seed, width |-> size[1], height |-> size[2], paths |-> paths]

\* one call of CurveGenerator.generate_curve_paths
GenerateCurvePaths ==
    /\ Len(curveCalls) < MaxCalls
    /\ \E seed \in CurveSeeds, size \in CurveSizes :
         curveCalls' = Append(curveCalls,
             CurveCall("generate_curve_paths", seed, size,
                       generate_curve_paths(size[1], size[2], seed)))
    /\ UNCHANGED <<cfg, pc, idx, asset, stage, fs, results, counts, exitCode, clock, run,
                   invoked, attempted, stageLog, seedLog, calc,
                   overlays, other, cap>>

\* one call of CurveGenerator.generate_horizontal_curve_paths
GenerateHorizontalCurvePaths ==
    /\ Len(curveCalls) < MaxCalls
    /\ \E seed \in CurveSeeds, size \in CurveSizes :
         curveCalls' = Append(curveCalls,
             CurveCall("generate_horizontal_curve_paths", seed, size,
                       generate_horizontal_curve_paths(size[1], size[2], seed)))
    /\ UNCHANGED <<cfg, pc, idx, asset, stage, fs, results, counts, exitCode, clock, run,
                   invoked, attempted, stageLog, seedLog, calc,
                   overlays, other, cap>>

InitCurves == Init /\ cfg \in RerunConfigs

NextCurves ==
    \/ GenerateCurvePaths
    \/ GenerateHorizontalCurvePaths
    \/ Tick

SpecCurves == InitCurves /\ [][NextCurves]_vars

(* ------------------- the layout arithmetic on its own ------------------ *)
\* sizes of raw screenshots found in the screenshots directory
CropSources ==
    {<<w, h>> : w \in {1, 750, 1290, 2048}, h \in {150, 181, 1334, 2732, 2796}}
\* sizes of flat mockups and the boxes they are fitted into
FitSources ==
    {<<100, 100>>, <<1000, 101>>, <<1290, 2796>>, <<1500, 3300>>, <<2235, 3000>>, <<3000, 3000>>}
FitBoxes ==
    {<<get_mockup_max_width(CANVAS_WIDTH), get_mockup_max_height(CANVAS_HEIGHT)>>, <<300, 300>>}
\* canvas heights: those of the five profiles and a sweep of small ones
CanvasHeights ==
    {CANVAS_HEIGHT, IPAD_13_HEIGHT, PHONE_HEIGHT, TABLET_HEIGHT, FG_HEIGHT} \cup (1..MaxSweep)

GeoFrame ==
    UNCHANGED <<cfg, pc, idx, asset, stage, fs, results, counts, exitCode, clock, run,
                invoked, attempted, stageLog, seedLog, curveCalls, overlays, other, cap>>

\* lines 1381-1396: the crop rectangle of a frame-free assembler
CropToAspect ==
    /\ \E a \in FrameFree, src \in CropSources :
         calc' = [fn |-> "crop", profile |-> a, src |-> src, out |-> CropRect(src, a)]
    /\ GeoFrame

\* resize_mockup_to_fit on a flat mockup
ResizeMockupToFit ==
    /\ \E src \in FitSources, box \in FitBoxes :
         calc' = [fn |-> "resize_mockup_to_fit", src |-> src, box |-> box,
                  out |-> resize_mockup_to_fit(Img(src[1], src[2], <<"subject">>),
                                               box[1], box[2])]
    /\ GeoFrame

\* lines 1398-1405 and 1429-1435: the cropped screenshot scaled into its box
ScaleScreenshot ==
    /\ \E a \in FrameFree, src \in CropSources :
         LET rect == CropRect(src, a)
             size == ScreenshotSize(rect[1], rect[2], a)
         IN  /\ rect[1] > 0 /\ rect[2] > 0
             /\ calc' = [fn |-> "scale_screenshot", profile |-> a,
                         src |-> <<rect[1], rect[2]>>,
                         box |-> <<get_mockup_max_width(Canvas(a)[1]),
                                   get_mockup_max_height(Canvas(a)[2])>>,
                         out |-> ResizeFit(Img(rect[1], rect[2], <<"subject">>),
                                           size[1], size[2])]
    /\ GeoFrame

\* the three vertical regions of a canvas
BottomSpace(canvas_height) == (canvas_height * BOTTOM_SPACE_PERCENT) \div 100
LayoutRegions ==
    /\ \E h \in CanvasHeights :
         calc' = [fn |-> "layout", height |-> h, top |-> get_top_offset(h),
                  mockup |-> get_mockup_max_height(h), bottom |-> BottomSpace(h)]
    /\ GeoFrame

\* sizes of sources, top images and logos used for placement
PlacementSources == {<<750, 1334>>, <<1290, 2796>>, <<2048, 2732>>, <<2048, 1536>>}
TopImageSizes == {<<100, 100>>, <<300, 1200>>, <<1200, 300>>, <<4000, 500>>}
LogoSizes == {<<64, 64>>, <<256, 512>>, <<512, 256>>, <<2000, 200>>}

\* the subject composited with composite_with_asymmetric_position
PlaceSubject ==
    /\ \E a \in Profiles, src \in PlacementSources :
         calc' = [fn |-> "place_subject", profile |-> a, src |-> src,
                  box |-> SubjectBox(a, src)]
    /\ GeoFrame

\* sources of the layer: raw screenshots for the frame-free assemblers, flat
\* mockups for the iPhone
LayerSources(a) ==
    IF a = "iphone" THEN FitSources
    ELSE {src \in CropSources : src[2] > STATUS_BAR_OFFSET_PIXELS}

\* size <<w, h>> of the foreground handed to composite_with_asymmetric_position:
\* the resized mockup (iPhone), the "-size (w+100)x(h+100) xc:none" canvas of
\* step 8 (frame-free)
CompositedLayer(a, src) ==
    IF a = "iphone"
    THEN LET m == resize_mockup_to_fit(Img(src[1], src[2], <<"subject">>),
                                       get_mockup_max_width(Canvas(a)[1]),
                                       get_mockup_max_height(Canvas(a)[2]))
         IN  <<m.w, m.h>>
    ELSE LET rect == CropRect(src, a)
             size == ScreenshotSize(rect[1], rect[2], a)
         IN  <<size[1] + SHADOW_CANVAS_MARGIN, size[2] + SHADOW_CANVAS_MARGIN>>

\* composite_with_asymmetric_position: "-gravity north -geometry +0+top_offset"
CompositeWithAsymmetricPosition ==
    /\ \E a \in Profiles : \E src \in LayerSources(a) :
         LET layer == CompositedLayer(a, src)
         IN  calc' = [fn |-> "composite_with_asymmetric_position", profile |-> a,
                      src |-> src, layer |-> layer,
                      at |-> GravityNorth(Canvas(a)[1], layer[1],
                                          get_top_offset(Canvas(a)[2]))]
    /\ GeoFrame

\* _add_top_image
AddTopImage ==
    /\ \E a \in Profiles, orig \in TopImageSizes :
         calc' = [fn |-> "add_top_image", profile |-> a, orig |-> orig,
                  box |-> TopImageBox(orig, a)]
    /\ GeoFrame

\* _add_bottom_logo on a canvas that holds the subject
AddBottomLogo ==
    /\ \E a \in Profiles, orig \in LogoSizes, src \in PlacementSources :
         calc' = [fn |-> "add_bottom_logo", profile |-> a, orig |-> orig, src |-> src,
                  box |-> LogoBox(orig, a), subject |-> SubjectBox(a, src)]
    /\ GeoFrame

\* step 10 of create_feature_graphic
AddFeatureGraphicLogo ==
    /\ \E orig \in LogoSizes :
         calc' = [fn |-> "feature_graphic_logo", orig |-> orig,
                  box |-> FeatureGraphicLogoBox(orig)]
    /\ GeoFrame

\* device_type arguments of _add_top_image / _add_bottom_logo: the registered
\* keys and keys no registry holds
DeviceKeys == Profiles \cup {"feature_graphic", "tablet", "IPHONE", ""}

\* the two registry lookups that open _add_top_image and _add_bottom_logo
GetOverlayConfig ==
    /\ \E device_type \in DeviceKeys :
         calc' = [fn |-> "get_config", device_type |-> device_type,
                  top |-> TopImageConfig_get_config(device_type),
                  logo |-> BottomLogoConfig_get_config(device_type)]
    /\ GeoFrame

InitGeometry == Init /\ cfg \in RerunConfigs

NextGeometry ==
    \/ CropToAspect
    \/ ResizeMockupToFit
    \/ ScaleScreenshot
    \/ LayoutRegions
    \/ PlaceSubject
    \/ AddTopImage
    \/ AddBottomLogo
    \/ GetOverlayConfig
    \/ AddFeatureGraphicLogo
    \/ CompositeWithAsymmetricPosition

SpecGeometry == InitGeometry /\ [][NextGeometry]_vars

(* ------------------------ rounded-corner mask ------------------------- *)
\* a BGRA image: alpha and colour per pixel <<y, x>>; one value stands for the
\* three colour channels of a pixel
Pixels(h, w) == (0..(h - 1)) \X (0..(w - 1))
AlphaPatterns == {"opaque", "clear", "ramp", "noise"}
AlphaOf(pattern, y, x) ==
    CASE pattern = "opaque" -> 255
      [] pattern = "clear" -> 0
      [] pattern = "ramp" -> (x * 40 + y * 13) % 256
      [] OTHER -> (x * 97 + y * 57 + 31) % 256
Image(h, w, pattern) ==
    [h |-> h, w |-> w,
     alpha |-> [p \in Pixels(h, w) |-> AlphaOf(pattern, p[1], p[2])],
     bgr |-> [p \in Pixels(h, w) |-> (p[1] * 16 + p[2] * 3 + 7) % 256]]

\* corners_mask[y0:y1, x0:x1] = 0
ZeroBlock(mask, y0, y1, x0, x1) ==
    [p \in DOMAIN mask |->
        IF y0 <= p[1] /\ p[1] < y1 /\ x0 <= p[2] /\ p[2] < x1 THEN 0 ELSE mask[p]]
\* cv2.circle(corners_mask, (cx, cy), radius, 255, -1): the filled disc
Circle(mask, cx, cy, radius) ==
    [p \in DOMAIN mask |->
        IF (p[2] - cx) * (p[2] - cx) + (p[1] - cy) * (p[1] - cy) <= radius * radius
        THEN 255 ELSE mask[p]]
\* BORDER_REFLECT_101, the default border of cv2.GaussianBlur
Reflect101(i, n) == IF i < 0 THEN -i ELSE IF i >= n THEN 2 * (n - 1) - i ELSE i
\* the 5-tap kernel OpenCV uses for BLUR_KERNEL_SIZE (5, 5) with BLUR_SIGMA 0,
\* in sixteenths
GaussianKernel == <<1, 4, 6, 4, 1>>
GaussianBlur(mask, h, w) ==
    [p \in DOMAIN mask |->
        LET total == LET Row(dy) ==
                             LET yy == Reflect101(p[1] + dy - 3, h)
                                 v(dx) == GaussianKernel[dx] * mask[<<yy, Reflect101(p[2] + dx - 3, w)>>]
                             IN  GaussianKernel[dy] * (v(1) + v(2) + v(3) + v(4) + v(5))
                     IN  Row(1) + Row(2) + Row(3) + Row(4) + Row(5)
        IN  (total + 128) \div 256]
\* lines 54-78: the mask of an h x w image
corners_mask(h, w, radius) ==
    LET m0 == [p \in Pixels(h, w) |-> MASK_VALUE_ALLOW]
    IN  IF radius < Min(h, w)
        THEN LET m1 == Circle(ZeroBlock(m0, 0, radius, 0, radius), radius, radius, radius)
                 m2 == Circle(ZeroBlock(m1, 0, radius, w - radius, w),
                              w - radius - 1, radius, radius)
                 m3 == Circle(ZeroBlock(m2, h - radius, h, 0, radius),
                              radius, h - radius - 1, radius)
                 m4 == Circle(ZeroBlock(m3, h - radius, h, w - radius, w),
                              w - radius - 1, h - radius - 1, radius)
             IN  GaussianBlur(m4, h, w)
        ELSE m0

\* the bitwise conjunction of two naturals
RECURSIVE BitAnd(_, _)
BitAnd(a, b) ==
    IF a = 0 \/ b = 0 THEN 0
    ELSE (a % 2) * (b % 2) + 2 * BitAnd(a \div 2, b \div 2)

\* a mask that scales the alpha channel instead
alpha_multiply(alpha, mask) == (alpha * mask) \div 255
\* cv2.bitwise_and(original_alpha, corners_mask), per pixel
bitwise_and(alpha, mask) == BitAnd(alpha, mask)

apply_rounded_corners_simple(image, corner_radius) ==
    IF corner_radius < MIN_CORNER_RADIUS THEN image
    ELSE LET mask == corners_mask(image.h, image.w, corner_radius)
         IN  [image EXCEPT !.alpha = [p \in DOMAIN image.alpha |->
                                         bitwise_and(image.alpha[p], mask[p])]]

\* images of up to MaxSide x MaxSide pixels and the radii around those sizes
MaskInputs ==
    {[fn |-> "apply_rounded_corners_simple", original |-> Image(h, w, pattern),
      image |-> Image(h, w, pattern), once |-> Image(h, w, pattern),
      radius |-> r, applied |-> 0] :
        h \in 1..MaxSide, w \in 1..MaxSide, pattern \in AlphaPatterns,
        r \in 0..(MaxSide + 1)}

\* the mask is applied to the image held in calc, again and again
ApplyRoundedCorners ==
    /\ calc.fn = "apply_rounded_corners_simple"
    /\ calc.applied < MaxApplied
    /\ LET result == apply_rounded_corners_simple(calc.image, calc.radius)
       IN  calc' = [calc EXCEPT !.image = result,
                                !.once = IF calc.applied = 0 THEN result ELSE calc.once,
                                !.applied = calc.applied + 1]
    /\ GeoFrame

InitMask ==
    /\ cfg \in RerunConfigs
    /\ pc = "setup"
    /\ idx = 0
    /\ asset = "none"
    /\ stage = 0
    /\ fs = << >>
    /\ results = NoResults
    /\ counts = ZeroCounts
    /\ exitCode = -1
    /\ clock = 0
    /\ run = 1
    /\ invoked = << >>
    /\ attempted = {}
    /\ stageLog = << >>
    /\ seedLog = {}
    /\ curveCalls = << >>
    /\ calc \in MaskInputs
    /\ overlays = FoundOverlays(cfg)
    /\ other = NoOther
    /\ cap = NoCapture
NextMask == ApplyRoundedCorners
SpecMask == InitMask /\ [][NextMask]_vars

(* ------------------------- derived quantities ------------------------- *)
\* number of screenshots whose _process_screenshot call has returned
Returned == IF pc \in {"setup"} THEN 0 ELSE IF pc = "shot" THEN idx - 1 ELSE Min(idx - 1, Len(cfg.screenshots))
Produced(a, name) ==
    output_path(a, name) \in DOMAIN fs /\ ~fs[output_path(a, name)].partial
Outputs == {p \in DOMAIN fs : p[1] \notin TempDirs}
Pos(log, op) == IF \E i \in 1..Len(log) : log[i] = op
                THEN CHOOSE i \in 1..Len(log) : log[i] = op ELSE 0
Before(log, x, y) == (Pos(log, x) > 0 /\ Pos(log, y) > 0) => Pos(log, x) < Pos(log, y)
Count(seq, x) == Cardinality({i \in 1..Len(seq) : seq[i] = x})

(* -------------------------------- C1 ---------------------------------- *)
\* C1: a failure while processing one screenshot never aborts the batch loop:
\* _process_screenshot is invoked for the screenshots of the batch in order,
\* for all of them once the loop is over, and every asset produced so far is
\* counted in counts.
C1_BatchLoopContinues ==
    (cfg.screenshots # << >> /\ pc # "setup") =>
        /\ invoked = SubSeq(cfg.screenshots, 1, IF pc = "shot" THEN idx ELSE idx - 1)
        /\ (pc \in {"feature", "done"} => invoked = cfg.screenshots)
        /\ \A k \in Profiles :
             counts[k] = Cardinality({i \in 1..Returned : Produced(k, cfg.screenshots[i])})

\* the first screenshot failed, the second one was still processed and counted
C1_Witness ==
    /\ pc = "done"
    /\ Len(cfg.screenshots) = 2
    /\ ~Produced("iphone", cfg.screenshots[1])
    /\ Produced("iphone", cfg.screenshots[2])
    /\ counts["iphone"] = 1
    /\ invoked = cfg.screenshots

(* -------------------------------- C2 ---------------------------------- *)
\* C2: a stage failure in one (screenshot, profile) asset leaves the other
\* enabled profiles of the same screenshot unaffected: once the handler has
\* returned, every enabled profile's assembler was called for that screenshot.
C2_OtherProfilesAttempted ==
    \A i \in 1..Returned : \A p \in Profiles :
        Enabled(p) => <<cfg.screenshots[i], p>> \in attempted

(* -------------------------------- C3 ---------------------------------- *)
\* C3: once a request has returned or raised, none of its temporary files or
\* directories exists: no temporary path at all between screenshots and after
\* generate(), and no temporary directory of an assembler between assemblers.
C3_NoTempFilesAfterRequest ==
    /\ pc \in {"loop", "done"} => TempPaths(fs) = {}
    /\ stage <= 1 => InDirs(fs, TempDirs \ {"/tmp"}) = {}

\* a Google Play phone asset failed after the iPhone asset had been produced
C3_Witness ==
    /\ pc = "loop"
    /\ idx = 2
    /\ cfg.generate_gplay
    /\ results["iphone"]
    /\ ~results["gplay_phone"]
    /\ <<cfg.screenshots[1], "gplay_phone">> \in attempted
    /\ TempPaths(fs) = {}

(* -------------------------------- C4 ---------------------------------- *)
\* C4: a request completes all stages or aborts atomically: an output path
\* never holds a partially written file.
C4_AtomicOutput == \A p \in Outputs : ~fs[p].partial

(* -------------------------------- C5 ---------------------------------- *)
\* C5: the stages of one asset run in one fixed order: crop before corner
\* rounding before shadow synthesis; gradient, then curves, then the optional
\* top image; the subject is composited only onto the complete background; no
\* stage runs twice.
BackgroundStages == {"gradient", "curves", "curves_composite", "top_resize", "top_composite"}
C6_LogoOnce ==
    /\ \A p \in Outputs : ~fs[p].partial => Count(fs[p].layers, "logo") <= 1
    /\ Pos(stageLog, "bg_logo_composite") = 0

(* -------------------------------- C7 ---------------------------------- *)
\* C7: the iPhone assembler executes a shadow stage on the rounded subject
\* before it composites the subject onto the background.
C7_IPhoneShadow ==
    (asset = "iphone" /\ Pos(stageLog, "composite") > 0) =>
        (Pos(stageLog, "shadow") > 0 /\ Before(stageLog, "shadow", "composite"))

(* -------------------------------- C8 ---------------------------------- *)
\* C8: every completed asset has exactly the resolution mandated for its
\* profile: iPhone 1290x2796, iPad 2048x2732, Google Play phone 1080x1920,
\* Google Play tablet 1600x2560, Feature Graphic 1024x500.
Mandated(dir) ==
    CASE dir = "iphone_6_7" -> <<1290, 2796>>
      [] dir = "ipad_12_9" -> <<2048, 2732>>
      [] dir = "gplay_phone" -> <<1080, 1920>>
      [] dir = "gplay_tablet" -> <<1600, 2560>>
      [] OTHER -> <<1024, 500>>
SameArguments(c, d) ==
    c.fn = d.fn /\ c.seed = d.seed /\ c.width = d.width /\ c.height = d.height
C10_SeedFromFileName ==
    \A r1, r2 \in seedLog :
        (r1.profile = r2.profile /\ r1.name = r2.name) => r1.seed = r2.seed

\* C10 amended: for the four device assemblers the curve seed depends on the
\* screenshot's file name only; the Feature Graphic is seeded with
\* "feature_graphic_<time in ms>".
C10_DeviceSeedFromFileName ==
    \A r1, r2 \in seedLog :
        /\ (r1.profile \in Profiles /\ r1.profile = r2.profile /\ r1.name = r2.name)
             => r1.seed = r2.seed
        /\ r1.profile = "feature_graphic"
             => (r1.seed.text = "feature_graphic" /\ r1.seed.stamp >= 0)

\* two runs at different times have generated the curves of the same device
\* asset and of the Feature Graphic
C10_Witness ==
    /\ \E r1, r2 \in seedLog :
         r1.profile \in Profiles /\ r1.profile = r2.profile /\ r1.name = r2.name
         /\ r1.run # r2.run
    /\ \E r1, r2 \in seedLog :
         r1.profile = "feature_graphic" /\ r2.profile = "feature_graphic"
         /\ r1.run # r2.run /\ r1.seed # r2.seed

(* -------------------------------- C11 --------------------------------- *)
\* C11: for every source size and every frame-free profile the crop rectangle
\* has positive width and height, lies inside the source, starts at or below
\* the status-bar offset, and has the target aspect ratio within one pixel.
Abs(n) == IF n >= 0 THEN n ELSE -n
C11_CropCorrect ==
    calc.fn = "crop" =>
        LET r == calc.out
            aw == TargetAspect(calc.profile)[1]
            ah == TargetAspect(calc.profile)[2]
        IN  /\ r[1] > 0 /\ r[2] > 0
            /\ r[3] >= 0 /\ r[3] + r[1] <= calc.src[1]
            /\ r[4] >= STATUS_BAR_OFFSET_PIXELS /\ r[4] + r[2] <= calc.src[2]
            /\ \/ Abs(r[1] * ah - r[2] * aw) <= ah
               \/ Abs(r[1] * ah - r[2] * aw) <= aw

(* -------------------------------- C12 --------------------------------- *)
\* C12: a scaled subject is at most as wide and as high as its box, and as
\* wide or as high as the box unless the source already fitted;
\* resize_mockup_to_fit returns a source that already fits unchanged.
Fitted(c) == c.src[1] <= c.box[1] /\ c.src[2] <= c.box[2]
C12_ScaleToFit ==
    calc.fn \in {"resize_mockup_to_fit", "scale_screenshot"} =>
        /\ calc.out.w <= calc.box[1]
        /\ calc.out.h <= calc.box[2]
        /\ Fitted(calc) \/ calc.out.w = calc.box[1] \/ calc.out.h = calc.box[2]
        /\ (calc.fn = "resize_mockup_to_fit" /\ Fitted(calc)) =>
               (calc.out.w = calc.src[1] /\ calc.out.h = calc.src[2])

C14_SubjectPosition ==
    calc.fn = "place_subject" =>
        LET cw == Canvas(calc.profile)[1]
            ch == Canvas(calc.profile)[2]
        IN  /\ calc.box[2] = get_top_offset(ch)
            /\ Abs(2 * calc.box[1] + calc.box[3] - cw) <= 1

(* -------------------------------- C15 --------------------------------- *)
\* C15: for each device configuration and every top-image size the scaled top
\* image is at most as wide and as high as its maxima and its box lies inside
\* the top space: offset >= 0, offset + height <= top space, width <= canvas.
C15_TopImageBounds ==
    calc.fn = "add_top_image" =>
        LET c == TopImageConfig_get_config(calc.profile)
            cw == Canvas(calc.profile)[1]
            top_space == get_top_offset(Canvas(calc.profile)[2])
        IN  /\ calc.box[3] <= (cw * c.max_width) \div 1000
            /\ calc.box[4] <= (top_space * c.max_height) \div 1000
            /\ calc.box[2] >= 0
            /\ calc.box[2] + calc.box[4] <= top_space
            /\ calc.box[3] <= cw
            /\ calc.box[1] >= 0

\* a tall top image on the iPad canvas, scaled by its height constraint
C15_Witness ==
    /\ calc.fn = "add_top_image"
    /\ calc.profile = "ipad"
    /\ calc.orig = <<300, 1200>>
    /\ calc.box[3] < (IPAD_13_WIDTH * 850) \div 1000
    /\ calc.box[4] > (get_top_offset(IPAD_13_HEIGHT) * 900) \div 1000
    /\ calc.box[2] > 0

(* -------------------------------- C16 --------------------------------- *)
\* C16: for each device configuration, every logo size and every source size
\* the scaled logo respects its width and height maxima, its box lies inside
\* the canvas within the bottom band, and it does not intersect the box of
\* the composited subject.
Intersect(b, c) ==
    /\ b[1] < c[1] + c[3] /\ c[1] < b[1] + b[3]
    /\ b[2] < c[2] + c[4] /\ c[2] < b[2] + b[4]
C16_LogoBounds ==
    calc.fn = "add_bottom_logo" =>
        LET c == BottomLogoConfig_get_config(calc.profile)
            cw == Canvas(calc.profile)[1]
            ch == Canvas(calc.profile)[2]
        IN  /\ calc.box[3] <= (cw * c.max_width) \div 1000
            /\ calc.box[4] <= (BottomSpace(ch) * c.max_height) \div 1000
            /\ calc.box[1] >= 0 /\ calc.box[1] + calc.box[3] <= cw
            /\ calc.box[2] >= ch - BottomSpace(ch) /\ calc.box[2] + calc.box[4] <= ch
            /\ ~Intersect(calc.box, calc.subject)

\* a wide logo on the Google Play phone canvas, right of and below a subject
\* that reaches into the columns of the logo
C16_Witness ==
    /\ calc.fn = "add_bottom_logo"
    /\ calc.profile = "gplay_phone"
    /\ calc.orig = <<2000, 200>>
    /\ calc.box[1] < calc.subject[1] + calc.subject[3]
    /\ calc.box[2] >= calc.subject[2] + calc.subject[4]

(* -------------------------------- C17 --------------------------------- *)
\* C17: when the curve stage yields no overlay the asset is still produced
\* without curves: the stage that follows does not need the overlay file.
NoCurveOverlay ==
    /\ asset # "none"
    /\ stageLog # << >>
    /\ stageLog[Len(stageLog)] = "curves"
    /\ T(BgDir(asset), "curves.png") \notin DOMAIN fs
C18_EngineFailureAborts ==
    /\ (asset # "none" /\ stageLog # << >> /\ stageLog[Len(stageLog)] = "curves")
           => T(BgDir(asset), "curves.png") \in DOMAIN fs
    /\ \A i, j \in 1..Len(stageLog) : stageLog[i] = stageLog[j] => i = j

(* -------------------------------- C19 --------------------------------- *)
\* a well-formed hex colour: "#" followed by six hexadecimal digits
WellFormedHex(colour) ==
    /\ Len(colour) = 7
    /\ colour[1] = "#"
    /\ \A k \in 2..7 : IsHexDigit(colour[k])
\* C19: a request whose gradient start or end colour is not a well-formed hex
\* colour is rejected before any engine invocation or file write: with such
\* colours no stage is ever logged and no file is ever written.
C19_InvalidColourFailsFast ==
    (~WellFormedHex(cfg.gradient_start) \/ ~WellFormedHex(cfg.gradient_end))
        => (stageLog = << >> /\ fs = << >> /\ \A k \in DOMAIN counts : counts[k] = 0)

(* -------------------------------- C20 --------------------------------- *)
\* C20: a device-profile key outside the registry is never given the placement
\* constants of a registered profile (the lookup fails instead).
C20_UnknownProfileRejected ==
    (calc.fn = "get_config" /\ calc.device_type \notin Profiles) =>
        \A p \in Profiles :
            /\ calc.top # TopImageConfig_get_config(p)
            /\ calc.logo # BottomLogoConfig_get_config(p)

(* -------------------------------- C21 --------------------------------- *)
\* C21: a request that names an overlay file which is missing fails and
\* produces no output; the overlay is never silently left out: when generate()
\* passes a bottom logo to its requests, every asset produced carries the logo.
C21_OverlayNeverLeftOut ==
    cfg.bottom_logo_path =>
        \A p \in Outputs : ~fs[p].partial => Count(fs[p].layers, "logo") >= 1

(* -------------------------------- C22 --------------------------------- *)
\* C22: applying the rounded-corner mask is idempotent: every further
\* application with the same radius leaves the image as the first one left it;
\* the colour channels are never changed and no alpha value is ever increased.
C22_MaskIdempotent ==
    (calc.fn = "apply_rounded_corners_simple" /\ calc.applied >= 1) =>
        /\ calc.image = calc.once
        /\ calc.image.bgr = calc.original.bgr
        /\ \A p \in DOMAIN calc.image.alpha : calc.image.alpha[p] <= calc.original.alpha[p]

\* the mask was applied twice and has lowered, but not cleared, an alpha value
C22_Witness ==
    /\ calc.fn = "apply_rounded_corners_simple"
    /\ calc.applied = 2
    /\ calc.radius >= MIN_CORNER_RADIUS
    /\ calc.radius < Min(calc.image.h, calc.image.w)
    /\ \E p \in DOMAIN calc.image.alpha :
         0 < calc.image.alpha[p] /\ calc.image.alpha[p] < calc.original.alpha[p]

(* -------------------------------- C23 --------------------------------- *)
\* C23: every call of generate_curve_paths and of
\* generate_horizontal_curve_paths returns 1 or 2 closed paths.
C23_PathCount ==
    \A i \in 1..Len(curveCalls) :
        Len(curveCalls[i].paths) \in MIN_CURVES..MAX_CURVES

(* -------------------------------- C24 --------------------------------- *)
\* C24: the logo of a Feature Graphic lies within the left half of the canvas
\* (left margin + width of the scaled logo <= 512) and is at most 25% of the
\* canvas height high.
C24_FeatureGraphicLogo ==
    calc.fn = "feature_graphic_logo" =>
        /\ calc.box[1] + calc.box[3] <= (FG_WIDTH * TEXT_AREA_WIDTH_RATIO) \div 100
        /\ calc.box[4] <= (FG_HEIGHT * LOGO_MAX_HEIGHT_RATIO) \div 100

(* -------------------------------- C25 --------------------------------- *)
\* C25: the temporary files of two concurrent requests are isolated: the
\* second process reads the flat mockup it wrote itself (it is neither
\* overwritten nor deleted by this process), and no file of this process is
\* derived from the flat mockup of the second process.
C25_TempIsolation ==
    /\ other.read \in {"none", "own"}
    /\ \A p \in DOMAIN fs :
         fs[p] # OtherFlat => Count(fs[p].layers, "other_subject") = 0

(* -------------------------------- C26 --------------------------------- *)
\* C26: on iOS with tests not skipped, whenever _capture_screenshots is left
\* after a boot command was issued for the simulator, shutdown_simulator has
\* been called for it.
C26_SimulatorShutDown ==
    (cap.pc = "done" /\ cap.platform = "ios" /\ ~cap.skip_tests /\ cap.boot_issued)
        => cap.shutdown_called

(* -------------------------------- C27 --------------------------------- *)
\* C27: a pipeline invocation runs the capture step, starts generate() only
\* if capture returned 0, and returns 0 exactly when both steps returned 0,
\* 1 when a step failed.
C27_PipelineRuns ==
    calc.fn = "pipeline" =>
        /\ calc.out.capture_called
        /\ calc.out.generate_called = (calc.capture_result = 0)
        /\ calc.out.returned =
             (IF calc.capture_result = 0 /\ calc.mockup_result = 0 THEN 0 ELSE 1)

C29_DetectedCommand ==
    \A i \in 1..Len(stageLog) :
        EngineStage(stageLog[i]) =>
            EngineCommand(stageLog[i], detect_imagemagick_cmd(cfg.installed))
                = detect_imagemagick_cmd(cfg.installed)

(* -------------------------------- C30 --------------------------------- *)
\* C30: for every profile and every source taller than the status-bar offset
\* the layer composited north at y = top offset lies inside the canvas: it
\* starts at x >= 0, is at most as wide as the canvas, and top offset plus its
\* height is at most the canvas height.
C30_LayerInsideCanvas ==
    calc.fn = "composite_with_asymmetric_position" =>
        LET cw == Canvas(calc.profile)[1]
            ch == Canvas(calc.profile)[2]
        IN  /\ calc.at[1] >= 0
            /\ calc.at[2] = get_top_offset(ch)
            /\ calc.at[1] + calc.layer[1] <= cw
            /\ calc.at[2] + calc.layer[2] <= ch

\* a frame-free layer that fills its box in height and an iPhone mockup that
\* had to be shrunk
C30_Witness ==
    /\ calc.fn = "composite_with_asymmetric_position"
    /\ \/ /\ calc.profile \in FrameFree
          /\ calc.layer[2] = get_mockup_max_height(Canvas(calc.profile)[2])
                               + SHADOW_CANVAS_MARGIN
       \/ /\ calc.profile = "iphone"
          /\ calc.layer[2] < calc.src[2]
          /\ calc.layer[2] = get_mockup_max_height(CANVAS_HEIGHT)

====
